---- MODULE Spec2Model ----
(***************************************************************************)
(* Model of the MCP registry lookup service                                *)
(* (src/src/services/lookup.service.ts, src/src/routes/lookup.ts and the   *)
(* request schema of types/lookup.ts).                                     *)
(*                                                                         *)
(* Strings are sequences of tokens.  A token is a single character         *)
(* ("a", ".", ":", ",", "*", a digit, a blank) or one of the enumeration   *)
(* words ("verified", "local", ...).  No token is a prefix of another      *)
(* one, so two token sequences are equal exactly when the strings they     *)
(* spell are equal, and comparing token sequences lexicographically in     *)
(* the order of Alphabet is comparing the strings by UTF-16 code unit.     *)
(***************************************************************************)
EXTENDS Integers, Sequences, FiniteSets, TLC

VARIABLES
    store,     \* the relational store: servers and domain_mappings rows
    cache,     \* the module-level Map<string, CacheEntry>
    now,       \* Date.now()
    result,    \* what the last operation did and returned
    reply,     \* the last HTTP reply of GET /lookup
    written,   \* history: per cache key, the last call that wrote an entry
               \* since the last clearCache
    calls,     \* the lookupServers calls in flight: where each one is
               \* suspended, and its local variables
    sweepTimer, \* the interval timer of the sweep, created when the module
               \* is loaded: "active" or "cleared"
    sweepDue,  \* the time at which the interval timer fires next, in the
               \* runs where the sweep follows the clock
    client     \* the queries and HTTP requests callers issue in this run,
               \* and the migrations directory of the run

vars == <<store, cache, now, result, reply, written, calls, sweepTimer, sweepDue, client>>

-----------------------------------------------------------------------------
(* Bounds of the model                                                     *)

MaxRows == 2        \* domain_mappings rows in an enumerated store
MaxBudget == 2      \* max_results ranges over 1..MaxBudget and the limit 50
MaxSetLen == 2      \* trust levels listed in a query of the key runs
MaxSlack == 1       \* the clock is read within MaxSlack ms of 0 and of the TTL
MaxInputLen == 3    \* tokens of a max_results string of the schema runs
MaxCalls == 2       \* lookupServers calls in flight in the interleaved runs
MaxPrereqs == 7     \* installation_prerequisites rows of a server in the summary runs
MaxAuths == 3       \* authentication_configs rows of a server in the summary runs
MaxSweeps == 5      \* firings of the sweep timer in the timed runs
MaxFiles == 3       \* .sql files of a migrations directory
MaxLabels == 3      \* labels of a domain and parts of a pattern in the matcher runs

(* Program constants                                                       *)

CACHE_TTL_MS == 15 * 60 * 1000
SWEEP_INTERVAL_MS == 5 * 60 * 1000
MaxResultsLimit == 50
ExactConfidence == 100

\* the clock of the timed runs: the instants at which the sweep timer fires
\* and the MaxSlack ms after each
SweepClock ==
    {k * SWEEP_INTERVAL_MS + o : k \in 0..MaxSweeps, o \in 0..MaxSlack}

\* the values of Date.now(): two windows, one where entries are written
\* and one a TTL later, and the clock of the timed runs
ClockValues ==
    (0..(2 * MaxSlack))
      \cup ((CACHE_TTL_MS - MaxSlack)..(CACHE_TTL_MS + MaxSlack))
      \cup SweepClock

-----------------------------------------------------------------------------
(* Strings                                                                 *)

Alphabet ==
    << " ", "*", ",", "-", ".", "0", "1", "2", "3", "4", "5", "6", "7", "8",
       "9", ":", "a", "b", "community", "false", "hybrid", "local",
       "remote", "true", "unverified", "verified" >>

Rank(t) == CHOOSE i \in 1..Len(Alphabet) : Alphabet[i] = t

Min(a, b) == IF a < b THEN a ELSE b

\* s < t as JavaScript compares strings (code unit by code unit, a proper
\* prefix first)
StrLess(s, t) ==
    \E i \in 1..(Min(Len(s), Len(t)) + 1) :
        /\ \A j \in 1..(i - 1) : s[j] = t[j]
        /\ \/ i = Len(s) + 1 /\ i <= Len(t)
           \/ i <= Len(s) /\ i <= Len(t) /\ Rank(s[i]) < Rank(t[i])

\* Array.prototype.sort() without a comparator, on an array of strings
RECURSIVE sort(_)
sort(arr) ==
    IF arr = <<>> THEN <<>>
    ELSE LET x == arr[Len(arr)]
             s == sort(SubSeq(arr, 1, Len(arr) - 1))
             k == Cardinality({i \in 1..Len(s) : ~StrLess(x, s[i])})
         IN SubSeq(s, 1, k) \o <<x>> \o SubSeq(s, k + 1, Len(s))

\* Array.prototype.join(sep)
RECURSIVE join(_, _)
join(arr, sep) ==
    IF arr = <<>> THEN <<>>
    ELSE IF Len(arr) = 1 THEN arr[1]
    ELSE arr[1] \o sep \o join(Tail(arr), sep)

\* String.prototype.split(sep) for a one-character separator
RECURSIVE split(_, _)
split(s, sep) ==
    IF \A i \in 1..Len(s) : s[i] # sep
    THEN <<s>>
    ELSE LET k == CHOOSE i \in 1..Len(s) :
                      s[i] = sep /\ \A j \in 1..(i - 1) : s[j] # sep
         IN <<SubSeq(s, 1, k - 1)>> \o split(SubSeq(s, k + 1, Len(s)), sep)

\* String.prototype.trim()
RECURSIVE trim(_)
trim(s) ==
    IF s = <<>> THEN s
    ELSE IF Head(s) = " " THEN trim(Tail(s))
    ELSE IF s[Len(s)] = " " THEN trim(SubSeq(s, 1, Len(s) - 1))
    ELSE s

Digit(d) == Alphabet[d + 6]

\* `${n}` for a non-negative integer
RECURSIVE NumberToString(_)
NumberToString(n) ==
    IF n < 10 THEN <<Digit(n)>>
    ELSE NumberToString(n \div 10) \o <<Digit(n % 10)>>

\* `${b}` for a boolean
BooleanToString(b) == IF b THEN <<"true">> ELSE <<"false">>

Range(s) == {s[i] : i \in 1..Len(s)}

-----------------------------------------------------------------------------
(* Cache key                                                               *)

\* a key without the include_categories field
getCacheKeyWithoutCategories(query) ==
    query.domain \o <<":">>
      \o join(sort(query.trust_levels), <<",">>) \o <<":">>
      \o join(sort(query.deployment_types), <<",">>) \o <<":">>
      \o NumberToString(query.max_results)

\* a key built from the lists in the order the caller gave them
getCacheKeyUnsorted(query) ==
    query.domain \o <<":">>
      \o join(query.trust_levels, <<",">>) \o <<":">>
      \o join(query.deployment_types, <<",">>) \o <<":">>
      \o NumberToString(query.max_results) \o <<":">>
      \o BooleanToString(query.include_categories)

getCacheKey(query) ==
    query.domain \o <<":">>
      \o join(sort(query.trust_levels), <<",">>) \o <<":">>
      \o join(sort(query.deployment_types), <<",">>) \o <<":">>
      \o NumberToString(query.max_results) \o <<":">>
      \o BooleanToString(query.include_categories)

-----------------------------------------------------------------------------
(* The store                                                               *)

Str(t) == <<t>>

\* servers rows: server_id -> the columns the lookup reads
Servers ==
    [ s1 |-> [trust_level |-> Str("verified"), deployment_type |-> Str("local"),
              popularity_score |-> 2],
      s2 |-> [trust_level |-> Str("community"), deployment_type |-> Str("remote"),
              popularity_score |-> 1],
      s3 |-> [trust_level |-> Str("unverified"), deployment_type |-> Str("local"),
              popularity_score |-> 3] ]

DomainAB == <<"a", ".", "b">>
DomainBA == <<"b", ".", "a">>
PatternStarB == <<"*", ".", "b">>
PatternStarA == <<"*", ".", "a">>

Mapping(s, p, t, n) ==
    [server_id |-> s, domain_pattern |-> p, match_type |-> t, priority |-> n]

\* the domain_mappings rows the enumerated stores are built from
MappingRows ==
    { Mapping("s1", DomainAB, "exact", 2),
      Mapping("s2", DomainAB, "exact", 1),
      Mapping("s3", DomainAB, "exact", 1),
      Mapping("s1", PatternStarB, "wildcard", 2),
      Mapping("s2", PatternStarA, "wildcard", 1),
      Mapping("s3", PatternStarB, "wildcard", 1) }

SeqsUpTo(S, n) == UNION {[1..k -> S] : k \in 0..n}

\* every table of at most MaxRows rows, in every insertion order
Stores ==
    { [servers |-> Servers, domain_mappings |-> m] : m \in SeqsUpTo(MappingRows, MaxRows) }

\* servers s JOIN domain_mappings dm ON s.server_id = dm.server_id, in the
\* order of the domain_mappings table, with the selected columns
JoinRows(st) ==
    [ i \in 1..Len(st.domain_mappings) |->
        LET dm == st.domain_mappings[i]
            s == st.servers[dm.server_id]
        IN [server_id |-> dm.server_id,
            deployment_type |-> s.deployment_type,
            trust_level |-> s.trust_level,
            popularity_score |-> s.popularity_score,
            priority |-> dm.priority,
            domain_pattern |-> dm.domain_pattern,
            match_type |-> dm.match_type] ]

\* ORDER BY dm.priority ASC alone
RowBeforeByPriority(r, q) == r.priority < q.priority

\* ORDER BY dm.priority ASC, s.popularity_score DESC: r comes before q
RowBefore(r, q) ==
    \/ r.priority < q.priority
    \/ r.priority = q.priority /\ r.popularity_score > q.popularity_score

\* the ORDER BY of both stage queries; rows that tie keep the table order
RECURSIVE OrderBy(_)
OrderBy(rows) ==
    IF rows = <<>> THEN <<>>
    ELSE LET x == rows[Len(rows)]
             s == OrderBy(SubSeq(rows, 1, Len(rows) - 1))
             k == Cardinality({i \in 1..Len(s) : ~RowBefore(x, s[i])})
         IN SubSeq(s, 1, k) \o <<x>> \o SubSeq(s, k + 1, Len(s))

\* LIMIT n
Limit(rows, n) == SubSeq(rows, 1, Min(n, Len(rows)))

\* a WHERE clause without the trust level condition
PassesDeploymentOnly(row, query) ==
    row.deployment_type \in Range(query.deployment_types)

\* s.trust_level IN (...) AND s.deployment_type IN (...)
PassesFilters(row, query) ==
    /\ row.trust_level \in Range(query.trust_levels)
    /\ row.deployment_type \in Range(query.deployment_types)

-----------------------------------------------------------------------------
(* Domain pattern matcher                                                  *)

\* a test in which "*." may also stand for nothing
RECURSIVE matchesWildcardOptionalLabel(_, _)
matchesWildcardOptionalLabel(domain, pattern) ==
    IF pattern = <<>> THEN domain = <<>>
    ELSE IF Head(pattern) = "*"
         THEN \/ \E k \in 0..Len(domain) :
                    matchesWildcardOptionalLabel(SubSeq(domain, k + 1, Len(domain)),
                                                 Tail(pattern))
              \/ /\ Len(pattern) >= 2
                 /\ pattern[2] = "."
                 /\ matchesWildcardOptionalLabel(domain, SubSeq(pattern, 3, Len(pattern)))
         ELSE /\ domain # <<>>
              /\ Head(domain) = Head(pattern)
              /\ matchesWildcardOptionalLabel(Tail(domain), Tail(pattern))

\* a test against a regular expression without the "$" at its end
RECURSIVE matchesWildcardOpenEnd(_, _)
matchesWildcardOpenEnd(domain, pattern) ==
    IF pattern = <<>> THEN TRUE
    ELSE IF Head(pattern) = "*"
         THEN \E k \in 0..Len(domain) :
                 matchesWildcardOpenEnd(SubSeq(domain, k + 1, Len(domain)), Tail(pattern))
         ELSE /\ domain # <<>>
              /\ Head(domain) = Head(pattern)
              /\ matchesWildcardOpenEnd(Tail(domain), Tail(pattern))

\* new RegExp('^' + pattern with "." escaped and "*" as ".*" + '$').test(domain)
RECURSIVE matchesWildcard(_, _)
matchesWildcard(domain, pattern) ==
    IF pattern = <<>> THEN domain = <<>>
    ELSE IF Head(pattern) = "*"
         THEN \E k \in 0..Len(domain) :
                 matchesWildcard(SubSeq(domain, k + 1, Len(domain)), Tail(pattern))
         ELSE /\ domain # <<>>
              /\ Head(domain) = Head(pattern)
              /\ matchesWildcard(Tail(domain), Tail(pattern))


\* a confidence that is cut to an integer, not rounded
calculateWildcardConfidenceTruncated(domain, pattern) ==
    LET patternParts == split(pattern, ".")
        domainParts == split(domain, ".")
        specificParts ==
            Cardinality({i \in 1..Len(patternParts) : patternParts[i] # <<"*">>})
        totalParts == Len(domainParts)
    IN 70 + ((20 * specificParts) \div totalParts)

\* Math.round(70 + (specificParts / totalParts) * 20)
calculateWildcardConfidence(domain, pattern) ==
    LET patternParts == split(pattern, ".")
        domainParts == split(domain, ".")
        specificParts ==
            Cardinality({i \in 1..Len(patternParts) : patternParts[i] # <<"*">>})
        totalParts == Len(domainParts)
    IN 70 + ((40 * specificParts + totalParts) \div (2 * totalParts))

-----------------------------------------------------------------------------
(* Match stage pipeline                                                    *)

buildServerMatch(serverRow, matchType, confidence) ==
    [server_id |-> serverRow.server_id,
     deployment_type |-> serverRow.deployment_type,
     match_type |-> matchType,
     match_confidence |-> confidence,
     priority |-> serverRow.priority,
     trust_level |-> serverRow.trust_level,
     popularity_score |-> serverRow.popularity_score]

\* the rows of the exact stage's query
ExactRows(st, query) ==
    OrderBy(SelectSeq(JoinRows(st),
        LAMBDA r : /\ r.domain_pattern = query.domain
                   /\ r.match_type = "exact"
                   /\ PassesFilters(r, query)))

\* an exact stage that scores its rows like wildcard rows
findExactDomainMatchesScored(st, query) ==
    LET rows == ExactRows(st, query)
    IN [i \in 1..Len(rows) |->
           buildServerMatch(rows[i], "exact",
               calculateWildcardConfidence(query.domain, rows[i].domain_pattern))]

findExactDomainMatches(st, query) ==
    LET rows == ExactRows(st, query)
    IN [i \in 1..Len(rows) |-> buildServerMatch(rows[i], "exact", ExactConfidence)]

\* the wildcard stage's query without its LIMIT
WildcardCandidates(st, query) ==
    OrderBy(SelectSeq(JoinRows(st),
        LAMBDA r : r.match_type = "wildcard" /\ PassesFilters(r, query)))

\* the rows of the wildcard stage's query
WildcardRows(st, query, currentCount) ==
    Limit(WildcardCandidates(st, query), query.max_results - currentCount)

\* a wildcard stage that applies the glob test before the limit
findWildcardMatchesFilterFirst(st, query, currentCount) ==
    LET limit == query.max_results - currentCount
    IN IF limit <= 0 THEN <<>>
       ELSE LET rows == Limit(SelectSeq(WildcardCandidates(st, query),
                            LAMBDA r : matchesWildcard(query.domain, r.domain_pattern)),
                            limit)
            IN [i \in 1..Len(rows) |->
                   buildServerMatch(rows[i], "wildcard",
                       calculateWildcardConfidence(query.domain, rows[i].domain_pattern))]

findWildcardMatches(st, query, currentCount) ==
    LET limit == query.max_results - currentCount
    IN IF limit <= 0 THEN <<>>
       ELSE LET rows == SelectSeq(WildcardRows(st, query, currentCount),
                            LAMBDA r : matchesWildcard(query.domain, r.domain_pattern))
            IN [i \in 1..Len(rows) |->
                   buildServerMatch(rows[i], "wildcard",
                       calculateWildcardConfidence(query.domain, rows[i].domain_pattern))]

\* a category stage that returns the servers of the domain's wildcard rows
findCategoryMatchesFilled(st, query, currentCount) ==
    LET limit == query.max_results - currentCount
        rows == Limit(WildcardCandidates(st, query), limit)
    IN IF limit <= 0 THEN <<>>
       ELSE [i \in 1..Len(rows) |-> buildServerMatch(rows[i], "category", 50)]

findCategoryMatches(st, query, currentCount) ==
    LET limit == query.max_results - currentCount
    IN IF limit <= 0 THEN <<>> ELSE <<>>

\* slice that drops nothing
sliceKeepsAll(matches, n) == matches

\* a slice of the matches that keeps the first match of each server only
sliceDistinctServers(matches, n) ==
    LET kept == {i \in 1..Len(matches) :
                    \A j \in 1..(i - 1) : matches[j].server_id # matches[i].server_id}
        distinct == [k \in 1..Cardinality(kept) |->
                        matches[CHOOSE i \in kept :
                                    Cardinality({j \in kept : j <= i}) = k]]
    IN SubSeq(distinct, 1, Min(n, Len(distinct)))

\* matches.slice(0, query.max_results)
slice(matches, n) == SubSeq(matches, 1, Min(n, Len(matches)))

\* the stages of lookupServers after a cache miss, with what each stage did
Pipeline(st, query) ==
    LET exact == findExactDomainMatches(st, query)
        wildcardRuns == Len(exact) < query.max_results
        wildcard == IF wildcardRuns
                    THEN findWildcardMatches(st, query, Len(exact))
                    ELSE <<>>
        afterWildcard == exact \o wildcard
        categoryRuns == query.include_categories
                          /\ Len(afterWildcard) < query.max_results
        category == IF categoryRuns
                    THEN findCategoryMatches(st, query, Len(afterWildcard))
                    ELSE <<>>
        all == afterWildcard \o category
    IN [matches |-> slice(all, query.max_results),
        collected |-> all,
        exactCount |-> Len(exact),
        wildcardRuns |-> wildcardRuns,
        wildcardRows |-> IF wildcardRuns
                         THEN WildcardRows(st, query, Len(exact)) ELSE <<>>,
        categoryRuns |-> categoryRuns]

-----------------------------------------------------------------------------
(* Summaries of a matched server                                           *)

\* the rows of a table with the given server_id, in the order of the table
RowsOf(table, serverId) == SelectSeq(table, LAMBDA r : r.server_id = serverId)

\* an estimate without the upper limit of 30 minutes
getPrerequisitesSummaryUncapped(st, serverId) ==
    LET rows == RowsOf(st.installation_prerequisites, serverId)
    IN IF Len(rows) = 0
       THEN [complexity |-> "simple", estimatedMinutes |-> 5, requiresRestart |-> FALSE]
       ELSE [complexity |-> IF Len(rows) > 3 THEN "complex"
                            ELSE IF Len(rows) > 1 THEN "moderate"
                            ELSE "simple",
             estimatedMinutes |-> Len(rows) * 5,
             requiresRestart |->
                 \E i \in 1..Len(rows) : rows[i].prerequisite_type = "runtime"]

getPrerequisitesSummary(st, serverId) ==
    LET rows == RowsOf(st.installation_prerequisites, serverId)
    IN IF Len(rows) = 0
       THEN [complexity |-> "simple", estimatedMinutes |-> 5, requiresRestart |-> FALSE]
       ELSE [complexity |-> IF Len(rows) > 3 THEN "complex"
                            ELSE IF Len(rows) > 1 THEN "moderate"
                            ELSE "simple",
             estimatedMinutes |-> Min(Len(rows) * 5, 30),
             requiresRestart |->
                 \E i \in 1..Len(rows) : rows[i].prerequisite_type = "runtime"]

\* ORDER BY priority ASC; rows that tie keep the table order
RECURSIVE OrderByPriority(_)
OrderByPriority(rows) ==
    IF rows = <<>> THEN <<>>
    ELSE LET x == rows[Len(rows)]
             s == OrderByPriority(SubSeq(rows, 1, Len(rows) - 1))
             k == Cardinality({i \in 1..Len(s) : s[i].priority <= x.priority})
         IN SubSeq(s, 1, k) \o <<x>> \o SubSeq(s, k + 1, Len(s))

\* a summary that looks for oauth2 in the primary row only
getAuthenticationSummaryPrimaryOnly(st, serverId) ==
    LET rows == OrderByPriority(RowsOf(st.authentication_configs, serverId))
        allMethods == [i \in 1..Len(rows) |-> rows[i].auth_type]
    IN IF Len(rows) = 0
       THEN [required |-> FALSE, authType |-> <<>>, oauthReady |-> FALSE,
             methods |-> <<>>]
       ELSE [required |-> rows[1].required = 1,
             authType |-> <<rows[1].auth_type>>,
             oauthReady |-> rows[1].auth_type = "oauth2",
             methods |-> allMethods]

\* authType is <<>> when the property is not set, <<type>> otherwise
getAuthenticationSummary(st, serverId) ==
    LET rows == OrderByPriority(RowsOf(st.authentication_configs, serverId))
        allMethods == [i \in 1..Len(rows) |-> rows[i].auth_type]
    IN IF Len(rows) = 0
       THEN [required |-> FALSE, authType |-> <<>>, oauthReady |-> FALSE,
             methods |-> <<>>]
       ELSE [required |-> rows[1].required = 1,
             authType |-> <<rows[1].auth_type>>,
             oauthReady |-> "oauth2" \in Range(allMethods),
             methods |-> allMethods]

\* the ServerMatch buildServerMatch returns, with the fields it takes from
\* the prerequisites and the authentication summaries
ServerMatch(st, serverRow, matchType, confidence) ==
    LET prereqInfo == getPrerequisitesSummary(st, serverRow.server_id)
        authInfo == getAuthenticationSummary(st, serverRow.server_id)
    IN buildServerMatch(serverRow, matchType, confidence)
         @@ [installation_complexity |-> prereqInfo.complexity,
             estimated_setup_minutes |-> prereqInfo.estimatedMinutes,
             requires_restart |-> prereqInfo.requiresRestart,
             auth_required |-> authInfo.required,
             auth_type |-> authInfo.authType,
             oauth_ready |-> authInfo.oauthReady,
             auth_methods |-> authInfo.methods]

-----------------------------------------------------------------------------
(* Queries and responses                                                   *)

Query(d, tl, dt, n, c) ==
    [domain |-> d, trust_levels |-> tl, deployment_types |-> dt,
     max_results |-> n, include_categories |-> c]

MaxResultsChoices == (1..MaxBudget) \cup {MaxResultsLimit}

TrustLevelChoices ==
    { <<Str("verified")>>,
      <<Str("verified"), Str("community")>>,
      <<Str("unverified"), Str("verified"), Str("community")>> }

DeploymentTypeChoices ==
    { <<Str("local")>>,
      <<Str("local"), Str("remote"), Str("hybrid")>> }

\* the queries of the pipeline runs
Queries ==
    { Query(d, tl, dt, n, c) :
        d \in {DomainAB, DomainBA}, tl \in TrustLevelChoices,
        dt \in DeploymentTypeChoices, n \in MaxResultsChoices, c \in BOOLEAN }

Response(d, matches, searchTimeMs, cacheHit) ==
    [domain |-> d,
     match_metadata |-> [match_count |-> Len(matches),
                         search_time_ms |-> searchTimeMs,
                         cache_hit |-> cacheHit],
     matches |-> matches]

NoQuery == Query(<<>>, <<>>, <<>>, 0, FALSE)
NoResponse == Response(<<>>, <<>>, 0, FALSE)
NoRun ==
    [matches |-> <<>>, collected |-> <<>>, exactCount |-> 0,
     wildcardRuns |-> FALSE, wildcardRows |-> <<>>, categoryRuns |-> FALSE]

\* result of an operation: op is the operation, outcome "ok" or "error"
\* (the call rejected, fault being the store query that raised), cached
\* what the operation found in the cache (for a lookup the entry of the key:
\* "absent", "live" or "expired"; for clearCache "live" when it dropped an
\* entry a lookup would have served), swept whether a sweep has run since that entry was
\* written, at the time the call started, run what the pipeline did (NoRun
\* when it did not run), key the cache key the operation computed
Result(op, q, outcome, fault, cached, swept, at, response, run) ==
    [op |-> op, query |-> q, outcome |-> outcome, fault |-> fault, cached |-> cached,
     swept |-> swept, at |-> at, response |-> response, run |-> run,
     key |-> IF op \in {"lookupServers", "getCacheKey"} THEN getCacheKey(q) ELSE <<>>]

EmptyMap == <<>>

\* the store queries that can raise: of the exact stage, of the wildcard
\* stage, of the enrichment of a matched row
Faults == {"exact", "wildcard", "enrich"}

\* the milliseconds a pipeline run may take
Elapsed == {0, 1}

-----------------------------------------------------------------------------
(* lookupServers                                                           *)

\* a read path that still serves an entry whose age equals the TTL
CachedInclusive(cacheKey) ==
    IF cacheKey \notin DOMAIN cache THEN "absent"
    ELSE IF now - cache[cacheKey].timestamp <= CACHE_TTL_MS THEN "live"
    ELSE "expired"

\* a read path that serves an entry only while the store still gives the
\* matches stored in it
CachedIfCurrent(cacheKey) ==
    IF cacheKey \notin DOMAIN cache THEN "absent"
    ELSE IF /\ now - cache[cacheKey].timestamp < CACHE_TTL_MS
            /\ cache[cacheKey].data.matches
                 = Pipeline(store, written[cacheKey].query).matches
         THEN "live"
         ELSE "expired"

\* what cache.get(cacheKey) finds at the time of the call
Cached(cacheKey) ==
    IF cacheKey \notin DOMAIN cache THEN "absent"
    ELSE IF now - cache[cacheKey].timestamp < CACHE_TTL_MS THEN "live"
    ELSE "expired"

\* whether a sweep has run since the entry of the key was written
Swept(cacheKey) == cacheKey \in DOMAIN written /\ written[cacheKey].swept

\* a hit that returns the stored response as it was written
ServeCachedVerbatim(data, searchTimeMs) == data

\* the cache hit: the stored response with cache_hit and search_time_ms
\* overridden
ServeCached(data, searchTimeMs) ==
    [data EXCEPT !.match_metadata.cache_hit = TRUE,
                 !.match_metadata.search_time_ms = searchTimeMs]

\* whether a pipeline run with the given failing query reaches it
Raises(run, fault) ==
    \/ fault = "exact"
    \/ fault = "wildcard" /\ run.wildcardRuns
    \/ fault = "enrich" /\ Len(run.collected) > 0

\* a hit that restarts the life of the entry it serves
lookupHitRefreshing(query) ==
    LET cacheKey == getCacheKey(query)
    IN /\ Cached(cacheKey) = "live"
       /\ result' = Result("lookupServers", query, "ok", "none", "live", Swept(cacheKey), now,
                           ServeCached(cache[cacheKey].data, 0), NoRun)
       /\ cache' = [cache EXCEPT ![cacheKey].timestamp = now]
       /\ UNCHANGED <<store, now, written, calls, sweepTimer, sweepDue, client>>

lookupHit(query) ==
    LET cacheKey == getCacheKey(query)
    IN /\ Cached(cacheKey) = "live"
       /\ result' = Result("lookupServers", query, "ok", "none", "live", Swept(cacheKey), now,
                           ServeCached(cache[cacheKey].data, 0), NoRun)
       /\ UNCHANGED <<store, cache, now, written, calls, sweepTimer, sweepDue, client>>

lookupMiss(query, elapsed) ==
    LET cacheKey == getCacheKey(query)
        run == Pipeline(store, query)
        response == Response(query.domain, run.matches, elapsed, FALSE)
    IN /\ Cached(cacheKey) # "live"
       /\ now + elapsed \in ClockValues
       /\ now' = now + elapsed
       /\ cache' = [k \in DOMAIN cache \cup {cacheKey} |->
                       IF k = cacheKey
                       THEN [data |-> response, timestamp |-> now + elapsed]
                       ELSE cache[k]]
       /\ written' = [k \in DOMAIN written \cup {cacheKey} |->
                       IF k = cacheKey
                       THEN [query |-> query, response |-> response,
                             at |-> now + elapsed, swept |-> FALSE]
                       ELSE written[k]]
       /\ result' = Result("lookupServers", query, "ok", "none", Cached(cacheKey),
                           Swept(cacheKey), now,
                           response, run)
       /\ UNCHANGED <<store, calls, sweepTimer, sweepDue, client>>

\* a failing lookup that drops the entry of its key
lookupRaiseEvicting(query, elapsed, fault) ==
    LET cacheKey == getCacheKey(query)
        run == Pipeline(store, query)
    IN /\ Cached(cacheKey) # "live"
       /\ Raises(run, fault)
       /\ now + elapsed \in ClockValues
       /\ now' = now + elapsed
       /\ cache' = [k \in DOMAIN cache \ {cacheKey} |-> cache[k]]
       /\ result' = Result("lookupServers", query, "error", fault, Cached(cacheKey),
                           Swept(cacheKey), now,
                           NoResponse, NoRun)
       /\ UNCHANGED <<store, written, calls, sweepTimer, sweepDue, client>>

lookupRaise(query, elapsed, fault) ==
    LET cacheKey == getCacheKey(query)
        run == Pipeline(store, query)
    IN /\ Cached(cacheKey) # "live"
       /\ Raises(run, fault)
       /\ now + elapsed \in ClockValues
       /\ now' = now + elapsed
       /\ result' = Result("lookupServers", query, "error", fault, Cached(cacheKey),
                           Swept(cacheKey), now,
                           NoResponse, NoRun)
       /\ UNCHANGED <<store, cache, written, calls, sweepTimer, sweepDue, client>>

\* one call of lookupServers(query): served from the cache, computed and
\* cached, or rejected because a store query raised
lookupServers(query, elapsed) ==
    \/ lookupHit(query)
    \/ lookupMiss(query, elapsed)
    \/ \E fault \in Faults : lookupRaise(query, elapsed, fault)

\* a call of lookupServers from outside the route
Lookup(query, elapsed) ==
    /\ lookupServers(query, elapsed)
    /\ UNCHANGED reply

\* the matcher applied to the domain of a query and a pattern
globTest(query, pattern) ==
    /\ result' = Result("matchesWildcard", query,
                        IF matchesWildcard(query.domain, pattern)
                        THEN "match" ELSE "no_match",
                        "none", "absent", FALSE, now, NoResponse, NoRun)
    /\ UNCHANGED <<store, cache, now, reply, written, calls, sweepTimer, sweepDue, client>>

\* the exact stage with the matches as buildServerMatch returns them, the
\* summary fields included
exactMatches(query) ==
    LET rows == ExactRows(store, query)
        matches == [i \in 1..Len(rows) |->
                       ServerMatch(store, rows[i], "exact", ExactConfidence)]
    IN /\ result' = Result("findExactDomainMatches", query, "ok", "none", "absent",
                           FALSE, now, Response(query.domain, matches, 0, FALSE), NoRun)
       /\ UNCHANGED <<store, cache, now, reply, written, calls, sweepTimer, sweepDue, client>>

\* the key function applied to a query
cacheKeyOf(query) ==
    /\ result' = Result("getCacheKey", query, "ok", "none", "absent", FALSE, now,
                        NoResponse, NoRun)
    /\ UNCHANGED <<store, cache, now, reply, written, calls, sweepTimer, sweepDue, client>>

-----------------------------------------------------------------------------
(* Request schema and route                                                *)

\* an optional query-string parameter: <<>> when absent, <<value>> otherwise
Absent == <<>>
Given(value) == <<value>>

Request(domain, trustLevels, deploymentTypes, maxResults, includeCategories) ==
    [domain |-> domain, trust_levels |-> trustLevels,
     deployment_types |-> deploymentTypes, max_results |-> maxResults,
     include_categories |-> includeCategories]

\* .optional().default(value)
Default(param, value) == IF param = Absent THEN value ELSE param[1]

Words ==
    {"community", "false", "hybrid", "local", "remote", "true", "unverified", "verified"}

Digits == {"0", "1", "2", "3", "4", "5", "6", "7", "8", "9"}

\* [a-zA-Z0-9]
IsAlnum(t) == t \in Words \cup Digits \cup {"a", "b"}

\* the characters a token spells
TokenLength(t) ==
    CASE t \in {"true"} -> 4
      [] t \in {"false", "local"} -> 5
      [] t \in {"hybrid", "remote"} -> 6
      [] t = "verified" -> 8
      [] t = "community" -> 9
      [] t = "unverified" -> 10
      [] OTHER -> 1

\* String.prototype.length: the characters of all the tokens
length(s) ==
    Cardinality(UNION { {<<i, j>> : j \in 1..TokenLength(s[i])} : i \in 1..Len(s) })

\* [a-zA-Z0-9]([a-zA-Z0-9-]{0,61}[a-zA-Z0-9])?
IsLabel(l) ==
    /\ l # <<>>
    /\ IsAlnum(l[1])
    /\ IsAlnum(l[Len(l)])
    /\ \A i \in 1..Len(l) : IsAlnum(l[i]) \/ l[i] = "-"
    /\ length(l) <= 63

\* the checks of the domain without the upper bound on its length
DomainIssueUnbounded(param) ==
    IF param = Absent THEN "invalid_type"
    ELSE LET d == param[1]
             labels == split(d, ".")
         IN IF length(d) < 1 THEN "too_small"
            ELSE IF \A i \in 1..Len(labels) : IsLabel(labels[i]) THEN "ok"
            ELSE "invalid_string"

\* the checks of LookupQuerySchema.domain: "ok" or the failed check
DomainIssue(param) ==
    IF param = Absent THEN "invalid_type"
    ELSE LET d == param[1]
             labels == split(d, ".")
         IN IF length(d) < 1 THEN "too_small"
            ELSE IF length(d) > 253 THEN "too_big"
            ELSE IF \A i \in 1..Len(labels) : IsLabel(labels[i]) THEN "ok"
            ELSE "invalid_string"

\* the value of a string of digits
RECURSIVE DigitsValue(_)
DigitsValue(ds) ==
    IF ds = <<>> THEN 0
    ELSE 10 * DigitsValue(SubSeq(ds, 1, Len(ds) - 1)) + (Rank(ds[Len(ds)]) - 6)

\* the leading blanks of a string removed
RECURSIVE trimStart(_)
trimStart(s) == IF s # <<>> /\ Head(s) = " " THEN trimStart(Tail(s)) ELSE s

\* the longest prefix of digits
RECURSIVE DigitPrefix(_)
DigitPrefix(s) ==
    IF s # <<>> /\ Head(s) \in Digits THEN <<Head(s)>> \o DigitPrefix(Tail(s)) ELSE <<>>

\* parseInt(val, 10): isNaN, or the value
parseInt(val) ==
    LET t == trimStart(val)
        negative == t # <<>> /\ Head(t) = "-"
        ds == DigitPrefix(IF negative THEN Tail(t) ELSE t)
    IN IF ds = <<>> THEN [isNaN |-> TRUE, value |-> 0]
       ELSE [isNaN |-> FALSE,
             value |-> IF negative THEN 0 - DigitsValue(ds) ELSE DigitsValue(ds)]

\* a transform that only replaces what does not parse
MaxResultsOfUnchecked(param) ==
    LET num == parseInt(Default(param, <<"1", "0">>))
    IN IF num.isNaN THEN 10 ELSE num.value

\* the transform of LookupQuerySchema.max_results
MaxResultsOf(param) ==
    LET num == parseInt(Default(param, <<"1", "0">>))
    IN IF num.isNaN \/ num.value < 1 \/ num.value > MaxResultsLimit
       THEN 10
       ELSE num.value

\* the transform of trust_levels and of deployment_types
ListOf(param, defaultString, defaultList) ==
    LET val == Default(param, defaultString)
        parts == split(val, ",")
    IN IF val = <<>> THEN defaultList
       ELSE [i \in 1..Len(parts) |-> trim(parts[i])]

\* the transform of include_categories
IncludeCategoriesOf(param) ==
    LET val == Default(param, <<"false">>)
    IN val = <<"true">> \/ val = <<"1">>

\* LookupQuerySchema.parse(request.query): the query, or the ZodError
LookupQuerySchemaParse(request) ==
    [issue |-> DomainIssue(request.domain),
     data |->
        Query(Default(request.domain, <<>>),
              ListOf(request.trust_levels,
                     <<"verified", ",", "community">>,
                     <<Str("verified"), Str("community")>>),
              ListOf(request.deployment_types,
                     <<"local", ",", "remote", ",", "hybrid">>,
                     <<Str("local"), Str("remote"), Str("hybrid")>>),
              MaxResultsOf(request.max_results),
              IncludeCategoriesOf(request.include_categories))]

\* an HTTP reply: status, the error code of an error body, details.code of
\* a validation error, the domain echoed in the body, and the body's
\* match_metadata and matches for a 200
Reply(status, error, code, domain, response) ==
    [status |-> status, error |-> error, code |-> code, domain |-> domain,
     body |-> response]

NoReply == Reply(0, "none", "none", <<>>, NoResponse)

\* the reply of the route to the outcome of lookupServers
ReplyTo(res) ==
    IF res.outcome = "error"
    THEN Reply(500, "database_error", "none", <<>>, NoResponse)
    ELSE IF Len(res.response.matches) = 0
    THEN Reply(404, "no_matches", "none", res.query.domain, NoResponse)
    ELSE Reply(200, "none", "none", res.response.domain, res.response)

\* the handler of GET /lookup
getLookup(request, elapsed) ==
    LET parsed == LookupQuerySchemaParse(request)
    IN IF parsed.issue # "ok"
       THEN /\ reply' = Reply(400, "invalid_request", parsed.issue, <<>>, NoResponse)
            /\ UNCHANGED <<store, cache, now, result, written, calls, sweepTimer, sweepDue, client>>
       ELSE /\ lookupServers(parsed.data, elapsed)
            /\ reply' = ReplyTo(result')

-----------------------------------------------------------------------------
(* Cache maintenance and the clock                                         *)

\* a sweep that also removes the entries whose age equals the TTL
clearExpiredCacheInclusive ==
    LET expired == {k \in DOMAIN cache : now - cache[k].timestamp >= CACHE_TTL_MS}
    IN /\ sweepTimer = "active"
       /\ cache' = [k \in DOMAIN cache \ expired |-> cache[k]]
       /\ written' = [k \in DOMAIN written |-> [written[k] EXCEPT !.swept = TRUE]]
       /\ result' = Result("clearExpiredCache", NoQuery, "ok", "none", "absent", FALSE, now,
                           NoResponse, NoRun)
       /\ UNCHANGED <<store, now, reply, calls, sweepTimer, sweepDue, client>>

\* the body of the setInterval callback
clearExpiredCache ==
    LET expired == {k \in DOMAIN cache : now - cache[k].timestamp > CACHE_TTL_MS}
    IN /\ sweepTimer = "active"
       /\ cache' = [k \in DOMAIN cache \ expired |-> cache[k]]
       /\ written' = [k \in DOMAIN written |-> [written[k] EXCEPT !.swept = TRUE]]
       /\ result' = Result("clearExpiredCache", NoQuery, "ok", "none", "absent", FALSE, now,
                           NoResponse, NoRun)
       /\ UNCHANGED <<store, now, reply, calls, sweepTimer, sweepDue, client>>

\* a timer whose callback spares an entry for one more interval
sweepTimerFiresLenient ==
    LET expired == {k \in DOMAIN cache :
                       now - cache[k].timestamp > CACHE_TTL_MS + SWEEP_INTERVAL_MS}
    IN /\ sweepTimer = "active"
       /\ now = sweepDue
       /\ cache' = [k \in DOMAIN cache \ expired |-> cache[k]]
       /\ written' = [k \in DOMAIN written |-> [written[k] EXCEPT !.swept = TRUE]]
       /\ result' = Result("clearExpiredCache", NoQuery, "ok", "none", "absent", FALSE, now,
                           NoResponse, NoRun)
       /\ sweepDue' = sweepDue + SWEEP_INTERVAL_MS
       /\ UNCHANGED <<store, now, reply, calls, sweepTimer, client>>

\* the interval timer fires when it is due: clearExpiredCache runs, and the
\* timer is due again an interval later
sweepTimerFires ==
    LET expired == {k \in DOMAIN cache : now - cache[k].timestamp > CACHE_TTL_MS}
    IN /\ sweepTimer = "active"
       /\ now = sweepDue
       /\ cache' = [k \in DOMAIN cache \ expired |-> cache[k]]
       /\ written' = [k \in DOMAIN written |-> [written[k] EXCEPT !.swept = TRUE]]
       /\ result' = Result("clearExpiredCache", NoQuery, "ok", "none", "absent", FALSE, now,
                           NoResponse, NoRun)
       /\ sweepDue' = sweepDue + SWEEP_INTERVAL_MS
       /\ UNCHANGED <<store, now, reply, calls, sweepTimer, client>>

\* a clearCache that drops the expired entries only
clearCacheExpired ==
    /\ cache' = [k \in {j \in DOMAIN cache : Cached(j) = "live"} |-> cache[k]]
    /\ written' = [k \in {j \in DOMAIN written : Cached(j) = "live"} |-> written[k]]
    /\ result' = Result("clearCache", NoQuery, "ok", "none",
                        IF \E k \in DOMAIN cache : Cached(k) = "live" THEN "live"
                        ELSE "absent",
                        FALSE, now, NoResponse, NoRun)
    /\ UNCHANGED <<store, now, reply, calls, sweepTimer, sweepDue, client>>

clearCache ==
    /\ cache' = EmptyMap
    /\ written' = EmptyMap
    /\ result' = Result("clearCache", NoQuery, "ok", "none",
                        IF \E k \in DOMAIN cache : Cached(k) = "live" THEN "live"
                        ELSE "absent",
                        FALSE, now, NoResponse, NoRun)
    /\ UNCHANGED <<store, now, reply, calls, sweepTimer, sweepDue, client>>

TickSteps == {1, CACHE_TTL_MS - MaxSlack}

Tick(d) ==
    /\ now + d \in ClockValues
    /\ now' = now + d
    /\ UNCHANGED <<store, cache, result, reply, written, calls, sweepTimer, sweepDue, client>>

\* the steps of the clock of the timed runs
SweepTickSteps == {1} \cup {SWEEP_INTERVAL_MS - o : o \in 0..MaxSlack}

\* time passes in a timed run: not beyond the instant at which the timer is
\* due
TimedTick(d) ==
    /\ now + d \in SweepClock
    /\ now + d <= sweepDue
    /\ Tick(d)

-----------------------------------------------------------------------------
(* Migrations                                                              *)

\* fs.readdirSync: the names of the entries, in some order
readdirSync(directory) ==
    LET names == {f.name : f \in directory.entries}
    IN CHOOSE arr \in [1..Cardinality(names) -> names] : Range(arr) = names

\* file.endsWith('.sql')
IsSqlFile(directory, name) ==
    \E f \in directory.entries : f.name = name /\ f.ext = "sql"

\* the names the loop of runMigrations goes through
MigrationFiles(directory) ==
    sort(SelectSeq(readdirSync(directory), LAMBDA name : IsSqlFile(directory, name)))

\* the files a call applies: the pending files before the first one whose
\* SQL raises
RECURSIVE AppliedUntilFailure(_, _)
AppliedUntilFailure(pending, failing) ==
    IF pending = <<>> \/ Head(pending) \in failing THEN <<>>
    ELSE <<Head(pending)>> \o AppliedUntilFailure(Tail(pending), failing)

\* a runner that goes on with the next file after a failing one
runMigrationsSkippingFailed(failing) ==
    LET directory == client.directory
        files == MigrationFiles(directory)
        appliedMigrations == Range(store.migrations_table.names)
        pending == SelectSeq(files, LAMBDA f : f \notin appliedMigrations)
        done == SelectSeq(pending, LAMBDA f : f \notin failing)
    IN /\ failing \subseteq Range(files)
       /\ IF ~directory.exists
          THEN /\ store' = store
               /\ result' = Result("runMigrations", NoQuery, "ok", "none", "absent",
                                   FALSE, now, NoResponse, NoRun)
          ELSE /\ store' = [store EXCEPT
                               !.migrations_table =
                                   [exists |-> TRUE, names |-> @.names \o done],
                               !.applied = @ \o done]
               /\ result' = Result("runMigrations", NoQuery,
                                   IF Len(done) < Len(pending) THEN "error" ELSE "ok",
                                   "none", "absent", FALSE, now, NoResponse, NoRun)
       /\ UNCHANGED <<cache, now, reply, written, calls, sweepTimer, sweepDue, client>>

\* one call of runMigrations(db, migrationsDir); failing are the files whose
\* SQL raises when executed in this call.  applyMigration runs the SQL and
\* the INSERT INTO _migrations in one transaction, so a file is applied and
\* recorded, or neither; the exception of a failing file ends the call.
runMigrations(failing) ==
    LET directory == client.directory
        files == MigrationFiles(directory)
        appliedMigrations == Range(store.migrations_table.names)
        pending == SelectSeq(files, LAMBDA f : f \notin appliedMigrations)
        done == AppliedUntilFailure(pending, failing)
    IN /\ failing \subseteq Range(files)
       /\ IF ~directory.exists
          THEN /\ store' = store
               /\ result' = Result("runMigrations", NoQuery, "ok", "none", "absent",
                                   FALSE, now, NoResponse, NoRun)
          ELSE /\ store' = [store EXCEPT
                               !.migrations_table =
                                   [exists |-> TRUE, names |-> @.names \o done],
                               !.applied = @ \o done]
               /\ result' = Result("runMigrations", NoQuery,
                                   IF Len(done) < Len(pending) THEN "error" ELSE "ok",
                                   "none", "absent", FALSE, now, NoResponse, NoRun)
       /\ UNCHANGED <<cache, now, reply, written, calls, sweepTimer, sweepDue, client>>

-----------------------------------------------------------------------------
(* lookupServers step by step: one action per stretch of code between two  *)
(* points where the call is suspended (await)                              *)

Calls == 1..MaxCalls

\* the enrichment queries of buildServerMatch
SummaryQueries == 5

\* a call that has not started.  pc is where the call is suspended: "exact"
\* and "wildcard" inside the stage's loop over rows, "category" at the await
\* of the category stage, "done" after it returned or rejected.  rows are
\* the rows of the stage still to enrich, summaries the enrichment queries
\* done for the first of them, matches the local array of lookupServers.
\* History: queries the enrichment queries that returned, reads the stores
\* the stage queries read, raised whether a store query of the call raised,
\* began the number of calls completed when the call started, finished the
\* position of the call among the completed calls.
IdleCall ==
    [pc |-> "idle", query |-> NoQuery, key |-> <<>>, startTime |-> 0, began |-> 0,
     cached |-> "absent", rows |-> <<>>, summaries |-> 0, matches |-> <<>>,
     exactCount |-> 0, wildcardRuns |-> FALSE, wildcardRows |-> <<>>,
     categoryRuns |-> FALSE, queries |-> 0, reads |-> <<>>, raised |-> FALSE,
     finished |-> 0, outcome |-> "none", response |-> NoResponse,
     reply |-> NoReply]

NoCalls == [c \in Calls |-> IdleCall]

\* the number of calls that completed
Completed == Cardinality({c \in Calls : calls[c].pc = "done"})

\* what the pipeline of a completed call did, in the form of Pipeline
RunOf(call) ==
    [matches |-> call.response.matches,
     collected |-> call.matches,
     exactCount |-> call.exactCount,
     wildcardRuns |-> call.wildcardRuns,
     wildcardRows |-> call.wildcardRows,
     categoryRuns |-> call.categoryRuns]

\* a map that holds one entry
mapSetSingle(map, key, value) == [k \in {key} |-> value]

\* Map.prototype.set
mapSet(map, key, value) ==
    [k \in DOMAIN map \cup {key} |-> IF k = key THEN value ELSE map[k]]

\* the call completes: the handler replies, the call is recorded as done
complete(c, call, outcome, fault, response) ==
    LET res == Result("lookupServers", call.query, outcome, fault, call.cached,
                      Swept(call.key), call.startTime, response,
                      IF outcome = "ok" /\ call.cached # "live"
                      THEN RunOf([call EXCEPT !.response = response]) ELSE NoRun)
    IN /\ result' = res
       /\ reply' = ReplyTo(res)
       /\ calls' = [calls EXCEPT ![c] =
                       [call EXCEPT !.pc = "done", !.outcome = outcome,
                                    !.response = response,
                                    !.reply = ReplyTo(res),
                                    !.rows = <<>>, !.summaries = 0,
                                    !.finished = Completed + 1]]

\* a failing store query answered with the matches collected so far
rejectReturningPartial(c, call, fault) ==
    /\ complete(c, [call EXCEPT !.raised = TRUE], "ok", "none",
                Response(call.query.domain, call.matches, now - call.startTime, FALSE))
    /\ UNCHANGED <<store, cache, now, written, sweepTimer, sweepDue, client>>

\* a store query of the call raises: lookupServers rejects, the handler
\* replies from its catch block
reject(c, call, fault) ==
    /\ complete(c, [call EXCEPT !.raised = TRUE, !.matches = <<>>],
                "error", fault, NoResponse)
    /\ UNCHANGED <<store, cache, now, written, sweepTimer, sweepDue, client>>

\* an end of lookupServers that keeps an entry another call has written
respondKeepingEntry(c, call) ==
    LET matches == slice(call.matches, call.query.max_results)
        response == Response(call.query.domain, matches, now - call.startTime, FALSE)
    IN /\ cache' = IF call.key \in DOMAIN cache THEN cache
                   ELSE mapSet(cache, call.key, [data |-> response, timestamp |-> now])
       /\ written' = mapSet(written, call.key,
                         [query |-> call.query, response |-> response,
                          at |-> now, swept |-> FALSE])
       /\ complete(c, call, "ok", "none", response)
       /\ UNCHANGED <<store, now, sweepTimer, sweepDue, client>>

\* the code after the last await: slice, build the response, cache.set
respond(c, call) ==
    LET matches == slice(call.matches, call.query.max_results)
        response == Response(call.query.domain, matches, now - call.startTime, FALSE)
    IN /\ cache' = mapSet(cache, call.key, [data |-> response, timestamp |-> now])
       /\ written' = mapSet(written, call.key,
                         [query |-> call.query, response |-> response,
                          at |-> now, swept |-> FALSE])
       /\ complete(c, call, "ok", "none", response)
       /\ UNCHANGED <<store, now, sweepTimer, sweepDue, client>>

\* the call is suspended at the next await
suspend(c, call) ==
    /\ calls' = [calls EXCEPT ![c] = call]
    /\ UNCHANGED <<store, cache, now, result, reply, written, sweepTimer, sweepDue, client>>

\* the handler of GET /lookup up to the first await of lookupServers: the
\* schema, the cache check, the query of the exact stage
callStart(c, request) ==
    LET parsed == LookupQuerySchemaParse(request)
        query == parsed.data
        cacheKey == getCacheKey(query)
        call == [IdleCall EXCEPT !.query = query, !.key = cacheKey,
                                 !.startTime = now, !.began = Completed,
                                 !.cached = Cached(cacheKey)]
    IN /\ calls[c].pc = "idle"
       /\ IF parsed.issue # "ok"
          THEN /\ reply' = Reply(400, "invalid_request", parsed.issue, <<>>, NoResponse)
               /\ calls' = [calls EXCEPT ![c] =
                               [IdleCall EXCEPT !.pc = "done", !.outcome = "invalid",
                                                !.began = Completed,
                                                !.reply = reply',
                                                !.finished = Completed + 1]]
               /\ UNCHANGED <<store, cache, now, result, written, sweepTimer, sweepDue, client>>
          ELSE IF Cached(cacheKey) = "live"
          THEN /\ complete(c, call, "ok", "none", ServeCached(cache[cacheKey].data, 0))
               /\ UNCHANGED <<store, cache, now, written, sweepTimer, sweepDue, client>>
          ELSE \/ LET rows == ExactRows(store, query)
                  IN suspend(c, [call EXCEPT !.pc = "exact", !.rows = rows,
                                             !.exactCount = Len(rows),
                                             !.reads = <<store>>])
               \/ reject(c, call, "exact")

\* one enrichment query of buildServerMatch for the first row of the stage;
\* after the last one the match is pushed
enrich(c) ==
    LET call == calls[c]
        row == call.rows[1]
        confidence == IF call.pc = "exact" THEN ExactConfidence
                      ELSE calculateWildcardConfidence(call.query.domain,
                                                       row.domain_pattern)
    IN /\ call.pc \in {"exact", "wildcard"}
       /\ call.rows # <<>>
       /\ \/ IF call.summaries + 1 < SummaryQueries
             THEN suspend(c, [call EXCEPT !.summaries = @ + 1, !.queries = @ + 1])
             ELSE suspend(c, [call EXCEPT
                                !.summaries = 0, !.queries = @ + 1,
                                !.rows = Tail(@),
                                !.matches = Append(@, buildServerMatch(row, call.pc,
                                                                       confidence))])
          \/ reject(c, call, "enrich")

\* the call resumes after a stage returned: the wildcard stage's query, the
\* category stage, or the end of lookupServers
stageReturn(c) ==
    LET call == calls[c]
        query == call.query
        count == Len(call.matches)
        wildcard == WildcardRows(store, query, count)
        afterWildcard ==
            IF query.include_categories /\ count < query.max_results
            THEN suspend(c, [call EXCEPT
                               !.pc = "category", !.categoryRuns = TRUE,
                               !.matches = @ \o findCategoryMatches(store, query, count)])
            ELSE respond(c, call)
    IN /\ call.rows = <<>>
       /\ CASE call.pc = "exact" ->
                 IF count < query.max_results
                 THEN \/ suspend(c, [call EXCEPT
                            !.pc = "wildcard", !.wildcardRuns = TRUE,
                            !.wildcardRows = wildcard,
                            !.rows = SelectSeq(wildcard,
                                LAMBDA r : matchesWildcard(query.domain, r.domain_pattern)),
                            !.reads = Append(@, store)])
                      \/ reject(c, call, "wildcard")
                 ELSE afterWildcard
            [] call.pc = "wildcard" -> afterWildcard
            [] call.pc = "category" -> respond(c, call)
            [] OTHER -> FALSE

\* a row added to domain_mappings by another connection to the database
storeInsert(row) ==
    /\ \A i \in 1..Len(store.domain_mappings) : store.domain_mappings[i] # row
    /\ store' = [store EXCEPT !.domain_mappings = Append(@, row)]
    /\ UNCHANGED <<cache, now, result, reply, written, calls, sweepTimer, sweepDue, client>>

\* a row of domain_mappings deleted by another connection to the database
storeDelete(i) ==
    /\ i \in 1..Len(store.domain_mappings)
    /\ store' = [store EXCEPT !.domain_mappings =
                     SubSeq(@, 1, i - 1) \o SubSeq(@, i + 1, Len(@))]
    /\ UNCHANGED <<cache, now, result, reply, written, calls, sweepTimer, sweepDue, client>>

-----------------------------------------------------------------------------
(* Specifications                                                          *)

NoResult == Result("none", NoQuery, "ok", "none", "absent", FALSE, 0, NoResponse, NoRun)

DefaultTrustLevels == <<Str("verified"), Str("community")>>
DefaultDeploymentTypes == <<Str("local"), Str("remote"), Str("hybrid")>>

\* the stores of the cache runs
SeedStores ==
    { [servers |-> Servers, domain_mappings |-> m] :
        m \in { <<>>,
                << Mapping("s1", DomainAB, "exact", 2),
                   Mapping("s2", PatternStarB, "wildcard", 1) >> } }

\* the queries of the cache runs
CacheQueries ==
    { Query(DomainAB, DefaultTrustLevels, DefaultDeploymentTypes, 1, FALSE),
      Query(DomainAB, DefaultTrustLevels, DefaultDeploymentTypes, MaxResultsLimit, FALSE) }

Init ==
    /\ store \in SeedStores
    /\ cache = EmptyMap
    /\ now = 0
    /\ result = NoResult
    /\ reply = NoReply
    /\ written = EmptyMap
    /\ calls = NoCalls
    /\ sweepTimer = "active"
    /\ sweepDue = SWEEP_INTERVAL_MS
    /\ client = [queries |-> CacheQueries, requests |-> {}]

Next ==
    \/ \E q \in client.queries, e \in Elapsed : Lookup(q, e)
    \/ clearExpiredCache
    \/ clearCache
    \/ \E d \in TickSteps : Tick(d)

\* lookups, the sweep, clearCache and the clock, on a few stores and queries
Spec == Init /\ [][Next]_vars

\* a query with include_categories flipped
FlipCategories(q) == [q EXCEPT !.include_categories = ~@]

InitPipeline ==
    /\ store \in Stores
    /\ cache = EmptyMap
    /\ now = 0
    /\ result = NoResult
    /\ reply = NoReply
    /\ written = EmptyMap
    /\ calls = NoCalls
    /\ sweepTimer = "active"
    /\ sweepDue = SWEEP_INTERVAL_MS
    /\ client \in {[queries |-> {q, FlipCategories(q)}, requests |-> {}] : q \in Queries}

NextPipeline ==
    \E q \in client.queries : Lookup(q, 0)

\* lookups of one query, with and without categories, on every store
SpecPipeline == InitPipeline /\ [][NextPipeline]_vars

\* the arrays without repetition of at most n of the given values
Arrays(values, n) ==
    {a \in SeqsUpTo(values, n) : \A i, j \in 1..Len(a) : i # j => a[i] # a[j]}

\* the queries of the key runs
KeyQueries ==
    { Query(d, tl, dt, n, c) :
        d \in {<<"a">>, DomainAB},
        tl \in Arrays({Str("verified"), Str("community"), Str("unverified")}, MaxSetLen),
        dt \in Arrays({Str("local"), Str("remote"), Str("hybrid")}, 2),
        n \in MaxResultsChoices \cup {5},
        c \in BOOLEAN }

InitKey ==
    /\ store \in {[servers |-> Servers, domain_mappings |-> <<>>]}
    /\ cache = EmptyMap
    /\ now = 0
    /\ result = NoResult
    /\ reply = NoReply
    /\ written = EmptyMap
    /\ calls = NoCalls
    /\ sweepTimer = "active"
    /\ sweepDue = SWEEP_INTERVAL_MS
    /\ client \in {[queries |-> {q}, requests |-> {}] : q \in KeyQueries}

NextKey ==
    \E q \in client.queries : cacheKeyOf(q)

\* the key function on one query of KeyQueries
SpecKey == InitKey /\ [][NextKey]_vars

\* a label of n characters
Label(n) == [i \in 1..n |-> "a"]

\* a domain of well-formed labels that is one character longer than the
\* schema allows
LongDomain ==
    Label(63) \o <<".">> \o Label(63) \o <<".">> \o Label(63) \o <<".">> \o Label(62)

\* the requests of the route runs
HttpRequests ==
    { Request(Given(DomainAB), Absent, Absent, Absent, Absent),
      Request(Given(DomainAB), Given(<<"verified">>),
              Given(<<"a", ":", "b", ",", "local">>), Absent, Absent),
      Request(Given(DomainAB), Given(<<"verified", ":", "a">>),
              Given(<<"b", ",", " ", "local">>), Absent, Absent),
      Request(Given(DomainBA), Given(<<"community", ",", "verified">>),
              Given(<<"remote">>), Given(<<"5">>), Given(<<"true">>)),
      Request(Given(<<"a", ".", ".", "b">>), Absent, Absent, Absent, Absent),
      Request(Given(<<>>), Absent, Absent, Absent, Absent),
      Request(Given(LongDomain), Absent, Absent, Absent, Absent),
      Request(Absent, Absent, Absent, Given(<<"5", "1">>), Absent) }

\* the stores of the route runs
HttpStores ==
    { [servers |-> Servers, domain_mappings |-> m] :
        m \in { << Mapping("s1", DomainAB, "exact", 2) >>,
                << Mapping("s1", DomainAB, "exact", 2),
                   Mapping("s2", PatternStarA, "wildcard", 1) >> } }

InitHttp ==
    /\ store \in HttpStores
    /\ cache = EmptyMap
    /\ now = 0
    /\ result = NoResult
    /\ reply = NoReply
    /\ written = EmptyMap
    /\ calls = NoCalls
    /\ sweepTimer = "active"
    /\ sweepDue = SWEEP_INTERVAL_MS
    /\ client = [queries |-> {}, requests |-> HttpRequests]

NextHttp ==
    \/ \E r \in client.requests : getLookup(r, 0)
    \/ clearCache

\* requests of GET /lookup and clearCache
SpecHttp == InitHttp /\ [][NextHttp]_vars

\* the max_results strings of the schema runs
MaxResultsInputs ==
    {Absent} \cup {Given(v) : v \in SeqsUpTo({" ", "-", "0", "1", "5", "a"}, MaxInputLen)}

\* the requests of the schema runs
SchemaRequests ==
    {Request(Given(DomainAB), Absent, Absent, m, Absent) : m \in MaxResultsInputs}
       \cup {Request(Given(<<>>), Absent, Absent, Absent, Absent)}

InitSchema ==
    /\ store \in HttpStores
    /\ cache = EmptyMap
    /\ now = 0
    /\ result = NoResult
    /\ reply = NoReply
    /\ written = EmptyMap
    /\ calls = NoCalls
    /\ sweepTimer = "active"
    /\ sweepDue = SWEEP_INTERVAL_MS
    /\ client \in {[queries |-> {}, requests |-> {r}] : r \in SchemaRequests}

NextSchema ==
    \E r \in client.requests : getLookup(r, 0)

\* one request of GET /lookup, repeated, for every max_results string
SpecSchema == InitSchema /\ [][NextSchema]_vars

\* the requests of the interleaved runs, of two cache keys
AsyncRequests ==
    { Request(Given(DomainAB), Absent, Absent, Absent, Absent),
      Request(Given(DomainAB), Absent, Absent, Given(<<"1">>), Given(<<"true">>)) }

\* the rows another connection inserts during the interleaved runs
InsertedRows == {Mapping("s2", DomainAB, "exact", 1)}

\* the store of the interleaved runs: an exact and a wildcard mapping that
\* match the domain of the requests
AsyncStores ==
    { [servers |-> Servers,
       domain_mappings |-> << Mapping("s1", DomainAB, "exact", 2),
                              Mapping("s2", PatternStarB, "wildcard", 1) >>] }

InitAsync ==
    /\ store \in AsyncStores
    /\ cache = EmptyMap
    /\ now = 0
    /\ result = NoResult
    /\ reply = NoReply
    /\ written = EmptyMap
    /\ calls = NoCalls
    /\ sweepTimer = "active"
    /\ sweepDue = SWEEP_INTERVAL_MS
    /\ client = [queries |-> {}, requests |-> AsyncRequests]

\* the calls start in the order of their numbers
NextAsync ==
    \/ \E c \in Calls, r \in client.requests :
          /\ \A b \in 1..(c - 1) : calls[b].pc # "idle"
          /\ callStart(c, r)
    \/ \E c \in Calls : enrich(c)
    \/ \E c \in Calls : stageReturn(c)
    \/ \E row \in InsertedRows : storeInsert(row)
    \/ /\ now < MaxSlack
       /\ \E c \in Calls : calls[c].pc \notin {"idle", "done"}
       /\ Tick(1)

\* calls of GET /lookup interleaved at their await points, with the clock
\* and an insertion into the store
SpecAsync == InitAsync /\ [][NextAsync]_vars

\* the labels of the domains of the matcher runs
GlobLabels == {<<"a">>, <<"b">>, <<"a", "b">>}

\* the parts of the patterns of the matcher runs
GlobParts == {<<"*">>, <<"a">>, <<"b">>, <<"a", "*">>}

\* the strings of one to n of the given parts, joined by dots
Dotted(parts, n) == {join(ps, <<".">>) : ps \in SeqsUpTo(parts, n) \ {<<>>}}

GlobDomains == Dotted(GlobLabels, MaxLabels)

GlobPatterns == Dotted(GlobParts, MaxLabels)

\* the stores of the matcher runs: an exact mapping of a.b and one wildcard
\* mapping
GlobStores ==
    { [servers |-> Servers,
       domain_mappings |-> << Mapping("s2", DomainAB, "exact", 1),
                              Mapping("s1", pattern, "wildcard", 1) >>] :
        pattern \in GlobPatterns }

InitGlob ==
    /\ store \in GlobStores
    /\ cache = EmptyMap
    /\ now = 0
    /\ result = NoResult
    /\ reply = NoReply
    /\ written = EmptyMap
    /\ calls = NoCalls
    /\ sweepTimer = "active"
    /\ sweepDue = SWEEP_INTERVAL_MS
    /\ client \in { [queries |-> {Query(d, DefaultTrustLevels, DefaultDeploymentTypes,
                                        MaxResultsLimit, FALSE)},
                      requests |-> {}] : d \in GlobDomains }

NextGlob ==
    \/ \E q \in client.queries : globTest(q, store.domain_mappings[2].domain_pattern)
    \/ \E q \in client.queries : Lookup(q, 0)

\* the matcher and the lookup on one domain and one wildcard pattern
SpecGlob == InitGlob /\ [][NextGlob]_vars

\* the arrays that list the elements of the given array in another order
Reorderings(arr) ==
    {[i \in 1..Len(arr) |-> arr[p[i]]] : p \in Permutations(1..Len(arr))}

\* the trust level lists of the reordering runs, repeated values included
ReorderTrustLevels ==
    [1..MaxSetLen -> {Str("verified"), Str("community")}]

\* the deployment type lists of the reordering runs
ReorderDeploymentTypes == { <<Str("local"), Str("remote")>> }

\* a query and the queries that list its trust levels and deployment types
\* in another order
ReorderedQueries(tl, dt) ==
    { Query(DomainAB, tls, dts, MaxResultsLimit, FALSE) :
        tls \in Reorderings(tl), dts \in Reorderings(dt) }

InitReorder ==
    /\ store \in {st \in SeedStores : st.domain_mappings # <<>>}
    /\ cache = EmptyMap
    /\ now = 0
    /\ result = NoResult
    /\ reply = NoReply
    /\ written = EmptyMap
    /\ calls = NoCalls
    /\ sweepTimer = "active"
    /\ sweepDue = SWEEP_INTERVAL_MS
    /\ client \in { [queries |-> ReorderedQueries(tl, dt), requests |-> {}] :
                      tl \in ReorderTrustLevels, dt \in ReorderDeploymentTypes }

NextReorder ==
    \/ \E q \in client.queries : Lookup(q, 0)
    \/ clearCache
    \/ \E d \in TickSteps : Tick(d)

\* lookups of queries that differ in the order of their lists, clearCache
\* and the clock
SpecReorder == InitReorder /\ [][NextReorder]_vars

Prerequisite(s, t) == [server_id |-> s, prerequisite_type |-> t]

\* the installation_prerequisites tables of the summary runs: rows of the
\* matched server s1, with or without a row of another server in front
PrerequisiteTables ==
    { head \o rows :
        head \in {<<>>, <<Prerequisite("s2", "runtime")>>},
        rows \in SeqsUpTo({Prerequisite("s1", "runtime"),
                           Prerequisite("s1", "credential")}, MaxPrereqs) }

AuthConfig(s, t, n, r) ==
    [server_id |-> s, auth_type |-> t, priority |-> n, required |-> r]

\* the authentication_configs tables of the summary runs: rows of the
\* matched server s1, with or without a row of another server in front
AuthTables ==
    { head \o rows :
        head \in {<<>>, <<AuthConfig("s2", "oauth2", 1, 1)>>},
        rows \in SeqsUpTo({AuthConfig("s1", t, n, r) :
                              t \in {"api_key", "oauth2"}, n \in {1, 2}, r \in {0, 1}},
                          MaxAuths) }

\* the stores of the summary runs: one exact mapping of a.b to s1, and
\* either table filled
SummaryStores ==
    { [servers |-> Servers,
       domain_mappings |-> << Mapping("s1", DomainAB, "exact", 1) >>,
       installation_prerequisites |-> t[1],
       authentication_configs |-> t[2]] :
        t \in (PrerequisiteTables \X {<<>>})
                \cup ({<<Prerequisite("s1", "credential")>>} \X AuthTables) }

InitSummary ==
    /\ store \in SummaryStores
    /\ cache = EmptyMap
    /\ now = 0
    /\ result = NoResult
    /\ reply = NoReply
    /\ written = EmptyMap
    /\ calls = NoCalls
    /\ sweepTimer = "active"
    /\ sweepDue = SWEEP_INTERVAL_MS
    /\ client = [queries |-> {Query(DomainAB, DefaultTrustLevels,
                                     DefaultDeploymentTypes, MaxResultsLimit, FALSE)},
                 requests |-> {}]

NextSummary ==
    \E q \in client.queries : exactMatches(q)

\* the match of a server built from every table of prerequisites and of
\* authentication configs
SpecSummary == InitSummary /\ [][NextSummary]_vars

InitStale ==
    /\ store \in SeedStores
    /\ cache = EmptyMap
    /\ now = 0
    /\ result = NoResult
    /\ reply = NoReply
    /\ written = EmptyMap
    /\ calls = NoCalls
    /\ sweepTimer = "active"
    /\ sweepDue = SWEEP_INTERVAL_MS
    /\ client = [queries |-> {Query(DomainAB, DefaultTrustLevels,
                                     DefaultDeploymentTypes, MaxResultsLimit, FALSE)},
                 requests |-> {}]

NextStale ==
    \/ \E q \in client.queries : Lookup(q, 0)
    \/ \E row \in InsertedRows : storeInsert(row)
    \/ \E i \in 1..MaxRows : storeDelete(i)
    \/ clearCache
    \/ \E d \in TickSteps : Tick(d)

\* lookups of one query while other connections insert and delete rows of
\* domain_mappings, with clearCache and the clock
SpecStale == InitStale /\ [][NextStale]_vars

InitSweep ==
    /\ store \in {st \in SeedStores : st.domain_mappings # <<>>}
    /\ cache = EmptyMap
    /\ now = 0
    /\ result = NoResult
    /\ reply = NoReply
    /\ written = EmptyMap
    /\ calls = NoCalls
    /\ sweepTimer = "active"
    /\ sweepDue = SWEEP_INTERVAL_MS
    /\ client = [queries |-> CacheQueries, requests |-> {}]

NextSweep ==
    \/ \E q \in client.queries : Lookup(q, 0)
    \/ sweepTimerFires
    \/ \E d \in SweepTickSteps : TimedTick(d)

\* lookups while the sweep timer fires every SWEEP_INTERVAL_MS
SpecSweep == InitSweep /\ [][NextSweep]_vars

\* the names of the .sql files of the migrations directories
FileNames == {<<"1">>, <<"1", "0">>, <<"2">>, <<"2", "a">>, <<"a">>}

\* the migrations directories: up to MaxFiles .sql files, with or without
\* an entry that is not a .sql file, and a directory that does not exist
Directories ==
    { [exists |-> TRUE,
       entries |-> {[name |-> n, ext |-> "sql"] : n \in names} \cup other] :
        names \in {ns \in SUBSET FileNames : Cardinality(ns) <= MaxFiles},
        other \in {{}, {[name |-> <<"b">>, ext |-> "md"]}} }
      \cup {[exists |-> FALSE, entries |-> {}]}

\* a new database: no _migrations table, no migration applied
InitMigrate ==
    /\ store = [servers |-> Servers, domain_mappings |-> <<>>,
                migrations_table |-> [exists |-> FALSE, names |-> <<>>],
                applied |-> <<>>]
    /\ cache = EmptyMap
    /\ now = 0
    /\ result = NoResult
    /\ reply = NoReply
    /\ written = EmptyMap
    /\ calls = NoCalls
    /\ sweepTimer = "active"
    /\ sweepDue = SWEEP_INTERVAL_MS
    /\ client \in {[queries |-> {}, requests |-> {}, directory |-> d] : d \in Directories}

NextMigrate ==
    \E failing \in SUBSET FileNames : runMigrations(failing)

\* calls of runMigrations on one migrations directory, each with the files
\* that fail in it
SpecMigrate == InitMigrate /\ [][NextMigrate]_vars

-----------------------------------------------------------------------------
(* Properties                                                              *)

\* the last operation was a lookupServers call that returned a response
Returned == result.op = "lookupServers" /\ result.outcome = "ok"

CacheHit == result.response.match_metadata.cache_hit

Matches == result.response.matches

\* C1: every response of lookupServers, fresh or served from the cache, has
\* at most max_results matches, also when the store holds more than
\* max_results exact mappings of the domain.
C1_BudgetBound ==
    Returned => Len(Matches) <= result.query.max_results

\* C1 witness: a response served from the cache, cut to max_results, for a
\* domain with more exact mappings than max_results
C1_Witness ==
    /\ Returned
    /\ CacheHit
    /\ Len(ExactRows(store, result.query)) > result.query.max_results
    /\ Len(Matches) = result.query.max_results

\* C2: a call with the parameters of the call that wrote an entry, started
\* less than the TTL after that write and with no clearCache in between, is
\* answered with cache_hit = true and the domain, match_count and matches of
\* the first response.
C2_Idempotent ==
    [][\A q \in client.queries, e \in Elapsed, k \in DOMAIN written :
          ( /\ Lookup(q, e)
            /\ written[k].query = q
            /\ now - written[k].at < CACHE_TTL_MS )
          => /\ result'.outcome = "ok"
             /\ result'.response.match_metadata.cache_hit = TRUE
             /\ result'.response.domain = written[k].response.domain
             /\ result'.response.match_metadata.match_count
                  = written[k].response.match_metadata.match_count
             /\ result'.response.matches = written[k].response.matches]_vars

\* C2 witness: a hit with matches, later than the write, whose
\* search_time_ms differs from the one of the first response
C2_Witness ==
    /\ Returned
    /\ CacheHit
    /\ Matches # <<>>
    /\ LET k == getCacheKey(result.query)
       IN /\ k \in DOMAIN written
          /\ written[k].query = result.query
          /\ result.at > written[k].at
          /\ written[k].response.match_metadata.search_time_ms
               # result.response.match_metadata.search_time_ms

\* C3: with an entry written at T under the key of the query, a lookup at t
\* is a hit when t - T < TTL; when t - T >= TTL the entry is not served, and
\* the call that completes re-runs the pipeline and overwrites the entry
\* with a new timestamp; sweeps in between change nothing of this.
C3_TtlBoundary ==
    [][\A q \in client.queries, e \in Elapsed :
          LET k == getCacheKey(q)
          IN (Lookup(q, e) /\ k \in DOMAIN written)
             => IF now - written[k].at < CACHE_TTL_MS
                THEN /\ result'.outcome = "ok"
                     /\ result'.response.match_metadata.cache_hit = TRUE
                     /\ result'.run = NoRun
                     /\ cache' = cache
                ELSE /\ result'.response.match_metadata.cache_hit = FALSE
                     /\ result'.outcome = "ok"
                          => /\ result'.run = Pipeline(store, q)
                             /\ k \in DOMAIN cache'
                             /\ cache'[k].timestamp = now'
                             /\ cache'[k].data = result'.response]_vars

\* C3 witness: an entry of age >= TTL that a sweep left in the map is found
\* by the lookup and not served
C3_Witness ==
    /\ Returned
    /\ result.cached = "expired"
    /\ result.swept
    /\ ~CacheHit
    /\ result.run # NoRun

\* C6: every match of every response has a trust level and a deployment
\* type that the query asks for.
C6_Filters ==
    Returned =>
        \A i \in 1..Len(Matches) :
            /\ Matches[i].trust_level \in Range(result.query.trust_levels)
            /\ Matches[i].deployment_type \in Range(result.query.deployment_types)

\* C6 witness: the domain has an exact mapping to a server whose trust level
\* is not requested, the budget is not exhausted, and the response has
\* matches
C6_Witness ==
    /\ Returned
    /\ Matches # <<>>
    /\ Len(Matches) < result.query.max_results
    /\ \E i \in 1..Len(store.domain_mappings) :
          LET dm == store.domain_mappings[i]
          IN /\ dm.match_type = "exact"
             /\ dm.domain_pattern = result.query.domain
             /\ store.servers[dm.server_id].trust_level
                  \notin Range(result.query.trust_levels)
             /\ store.servers[dm.server_id].deployment_type
                  \in Range(result.query.deployment_types)

\* C7 as stated: for a domain with an exact mapping that passes the filters,
\* every match of the response is exact with confidence 100.
C7_AllMatchesExact ==
    (Returned /\ ExactRows(store, result.query) # <<>>)
        => \A i \in 1..Len(Matches) :
              /\ Matches[i].match_confidence = ExactConfidence
              /\ Matches[i].match_type = "exact"

\* C7 amended: for a domain with E exact mappings that pass the filters,
\* the first min(E, max_results) matches are exact with confidence 100, every
\* exact match has confidence 100, and the matches after them are wildcard
\* matches.
C7_ExactStageConfidence ==
    Returned =>
        LET E == Len(ExactRows(store, result.query))
        IN /\ Len(Matches) >= Min(E, result.query.max_results)
           /\ \A i \in 1..Len(Matches) :
                 IF i <= E
                 THEN /\ Matches[i].match_type = "exact"
                      /\ Matches[i].match_confidence = ExactConfidence
                 ELSE Matches[i].match_type = "wildcard"

\* C7 witness: an exact match followed by a wildcard match
C7_Witness ==
    /\ Returned
    /\ Len(Matches) = 2
    /\ Matches[1].match_type = "exact"
    /\ Matches[1].match_confidence = ExactConfidence
    /\ Matches[2].match_type = "wildcard"
    /\ Matches[2].match_confidence < ExactConfidence

\* a sequence of matches in stage order: exact before wildcard, and within
\* a stage by priority ascending, then popularity descending
StageOrdered(ms) ==
    \A i, j \in 1..Len(ms) :
        i < j =>
            /\ ~(ms[i].match_type = "wildcard" /\ ms[j].match_type = "exact")
            /\ ms[i].match_type = ms[j].match_type
                 => /\ ms[i].priority <= ms[j].priority
                    /\ ms[i].priority = ms[j].priority
                         => ms[i].popularity_score >= ms[j].popularity_score

\* C8: the matches of every response are in stage order, and those of a
\* fresh response are a prefix of the stage-ordered sequence the stages
\* collected.
C8_StageOrder ==
    Returned =>
        /\ StageOrdered(Matches)
        /\ result.cached # "live"
             => /\ StageOrdered(result.run.collected)
                /\ Len(Matches) <= Len(result.run.collected)
                /\ Matches = SubSeq(result.run.collected, 1, Len(Matches))

\* C8 witness: a truncated response of a store whose table order is not the
\* response order
C8_Witness ==
    /\ Returned
    /\ result.cached # "live"
    /\ Len(Matches) >= 1
    /\ Len(result.run.collected) > Len(Matches)
    /\ store.domain_mappings[1].server_id # Matches[1].server_id
    /\ store.domain_mappings[1].domain_pattern = result.query.domain

\* the matches of a given type, as (server_id, priority) pairs
OfType(ms, t) ==
    LET sel == SelectSeq(ms, LAMBDA m : m.match_type = t)
    IN [i \in 1..Len(sel) |-> <<sel[i].server_id, sel[i].priority>>]

\* C9: the wildcard stage runs exactly when the exact stage returned fewer
\* than max_results matches; it examines the first L = max_results - (exact
\* matches) wildcard rows in (priority, popularity) order, and its matches
\* are the examined rows that pass the glob test.
C9_WildcardWindow ==
    (Returned /\ result.cached # "live") =>
        LET q == result.query
            L == q.max_results - result.run.exactCount
            candidates == WildcardCandidates(store, q)
            window == SubSeq(candidates, 1, Min(L, Len(candidates)))
            passing == SelectSeq(window,
                           LAMBDA r : matchesWildcard(q.domain, r.domain_pattern))
        IN /\ result.run.wildcardRuns <=> result.run.exactCount < q.max_results
           /\ ~result.run.wildcardRuns
                => OfType(result.run.collected, "wildcard") = <<>>
           /\ result.run.wildcardRuns
                => /\ result.run.wildcardRows = window
                   /\ OfType(result.run.collected, "wildcard")
                        = [i \in 1..Len(passing) |->
                              <<passing[i].server_id, passing[i].priority>>]

\* C9 witness: a wildcard row that matches the domain is ranked after the
\* L-th row, and the response has fewer than max_results matches
C9_Witness ==
    /\ Returned
    /\ result.cached # "live"
    /\ result.run.wildcardRuns
    /\ Len(Matches) < result.query.max_results
    /\ LET q == result.query
           L == q.max_results - result.run.exactCount
           candidates == WildcardCandidates(store, q)
       IN \E i \in 1..Len(candidates) :
             /\ i > L
             /\ matchesWildcard(q.domain, candidates[i].domain_pattern)

\* C10: no match has match_type category; the entries written for two
\* queries that differ only in include_categories hold the same matches; and
\* a lookup with include_categories = true is rejected only by a failing
\* store query that rejects the lookup without categories as well.
C10_CategoryNoOp ==
    /\ Returned => \A i \in 1..Len(Matches) : Matches[i].match_type # "category"
    /\ \A k1, k2 \in DOMAIN written :
          written[k1].query = FlipCategories(written[k2].query)
              => /\ written[k1].response.matches = written[k2].response.matches
                 /\ written[k1].response.domain = written[k2].response.domain
                 /\ written[k1].response.match_metadata.match_count
                      = written[k2].response.match_metadata.match_count
    /\ ( /\ result.op = "lookupServers"
          /\ result.outcome = "error"
          /\ result.query.include_categories )
          => /\ result.fault \in Faults
             /\ Raises(Pipeline(store, FlipCategories(result.query)), result.fault)

\* C10 witness: the category stage ran, and the same query without
\* categories was answered with the same matches
C10_Witness ==
    /\ Returned
    /\ result.query.include_categories
    /\ result.run.categoryRuns
    /\ Matches # <<>>
    /\ LET k == getCacheKey(FlipCategories(result.query))
       IN /\ k \in DOMAIN written
          /\ written[k].response.matches = Matches

\* two queries with the same domain, set of trust levels, set of deployment
\* types, max_results and include_categories
SameParameters(q1, q2) ==
    /\ q1.domain = q2.domain
    /\ Range(q1.trust_levels) = Range(q2.trust_levels)
    /\ Range(q1.deployment_types) = Range(q2.deployment_types)
    /\ q1.max_results = q2.max_results
    /\ q1.include_categories = q2.include_categories

\* the key of every query of the key runs
KeyOf == [q \in KeyQueries |-> getCacheKey(q)]

\* C4: two queries over a valid domain, trust levels and deployment types
\* of the enumerations, max_results in 1..50 and a boolean that differ in one
\* of the five fields have different cache keys.
C4_KeyInjective ==
    result.op = "getCacheKey" =>
        \A q \in KeyQueries :
            ~SameParameters(result.query, q) => KeyOf[q] # result.key

\* C4 witness: the key of a query with two trust levels, and a query of
\* another key that differs from it in include_categories alone
C4_Witness ==
    /\ result.op = "getCacheKey"
    /\ Len(result.query.trust_levels) = 2
    /\ Len(result.query.deployment_types) = 2
    /\ result.query.max_results = MaxResultsLimit
    /\ KeyOf[FlipCategories(result.query)] # result.key

\* C5 as stated: a request is never answered with cache_hit = true from an
\* entry that a request with other parsed parameters wrote.
C5_NoCollision ==
    (reply.status = 200 /\ reply.body.match_metadata.cache_hit)
        => /\ result.key \in DOMAIN written
           /\ SameParameters(written[result.key].query, result.query)

\* no domain_mappings row matches the domain of the query under its filters
NoMappingMatches(st, query) ==
    /\ ExactRows(st, query) = <<>>
    /\ \A i \in 1..Len(WildcardCandidates(st, query)) :
          ~matchesWildcard(query.domain, WildcardCandidates(st, query)[i].domain_pattern)

\* C11 as stated: a request for a domain that no mapping matches under the
\* filters is answered, when no store query raises, with matches = [] and
\* match_count = 0 by lookupServers and with 404, error = no_matches and the
\* requested domain by the route; the route answers 404 exactly when
\* matches is empty, and match_count is the length of matches in every
\* response.
C11_NoMatches ==
    [][\A r \in client.requests :
          LET parsed == LookupQuerySchemaParse(r)
          IN (getLookup(r, 0) /\ parsed.issue = "ok" /\ result'.outcome = "ok")
             => /\ result'.response.match_metadata.match_count
                     = Len(result'.response.matches)
                /\ reply'.status = 404 <=> result'.response.matches = <<>>
                /\ reply'.status = 404
                     => reply'.error = "no_matches" /\ reply'.domain = parsed.data.domain
                /\ NoMappingMatches(store, parsed.data)
                     => /\ result'.response.matches = <<>>
                        /\ result'.response.match_metadata.match_count = 0
                        /\ reply'.status = 404]_vars

\* a string in dot-separated DNS-label syntax: letters, digits, hyphens and
\* dots, no empty label, no label that starts or ends with a hyphen or is
\* longer than 63 characters
IsDnsSyntax(d) ==
    /\ d # <<>>
    /\ \A i \in 1..Len(d) : IsAlnum(d[i]) \/ d[i] \in {"-", "."}
    /\ d[1] \notin {"-", "."}
    /\ d[Len(d)] \notin {"-", "."}
    /\ \A i \in 1..(Len(d) - 1) :
          /\ d[i] = "." => d[i + 1] \notin {"-", "."}
          /\ d[i] = "-" => d[i + 1] # "."
    /\ \A i \in 1..Len(d) :
          \A j \in i..Min(Len(d), i + 63) :
              (\A k \in i..j : d[k] # ".") => length(SubSeq(d, i, j)) <= 63

\* the domain parameter is missing, empty, longer than 253 characters or not
\* in DNS-label syntax
InvalidDomain(param) ==
    \/ param = Absent
    \/ param[1] = <<>>
    \/ length(param[1]) > 253
    \/ ~IsDnsSyntax(param[1])

\* C12: a request whose domain is missing, empty, longer than 253
\* characters or not in DNS-label syntax is answered 400 invalid_request,
\* and handling it calls no lookupServers and leaves the cache as it was.
C12_InvalidDomainRejected ==
    [][\A r \in client.requests :
          (getLookup(r, 0) /\ InvalidDomain(r.domain))
             => /\ reply'.status = 400
                /\ reply'.error = "invalid_request"
                /\ result' = result
                /\ cache' = cache
                /\ written' = written]_vars

\* C12 witness: a domain of well-formed labels rejected for its length
\* alone, while the cache holds an entry of an earlier request
C12_Witness ==
    /\ reply.status = 400
    /\ reply.error = "invalid_request"
    /\ reply.code = "too_big"
    /\ cache # EmptyMap
    /\ result.op = "lookupServers"

\* n copies of the token t
Repeat(t, n) == [i \in 1..n |-> t]

\* the string is blanks, zeros, the decimal numeral of k and a rest that
\* does not start with a digit
SpellsInteger(v, k) ==
    \E b, z \in 0..Len(v) :
        LET head == Repeat(" ", b) \o Repeat("0", z) \o NumberToString(k)
        IN /\ Len(head) <= Len(v)
           /\ SubSeq(v, 1, Len(head)) = head
           /\ Len(v) > Len(head) => v[Len(head) + 1] \notin Digits

\* the string is blanks, zeros and a numeral of three or more digits
SpellsLargeInteger(v) ==
    \E b, z \in 0..Len(v) :
        LET head == Repeat(" ", b) \o Repeat("0", z)
            rest == SubSeq(v, Len(head) + 1, Len(v))
        IN /\ Len(head) <= Len(v)
           /\ SubSeq(v, 1, Len(head)) = head
           /\ Len(rest) >= 3
           /\ rest[1] \in Digits \ {"0"}
           /\ rest[2] \in Digits
           /\ rest[3] \in Digits

\* the string starts, after blanks, with something that is not a numeral
SpellsNoInteger(v) ==
    \E b \in 0..Len(v) :
        /\ SubSeq(v, 1, b) = Repeat(" ", b)
        /\ \/ Len(v) = b
           \/ v[b + 1] = "a"
           \/ v[b + 1] = "-" /\ (Len(v) = b + 1 \/ v[b + 2] \notin Digits)

\* C13: the max_results the schema hands to lookupServers is an integer in
\* 1..50; it is 10 when the parameter is absent, when the string does not
\* start with a numeral, and when the numeral is below 1 or above 50 (a
\* numeral of one or two digits, or any longer one), and the value of the
\* numeral otherwise.
C13_MaxResultsRange ==
    result.op = "lookupServers" =>
        \A r \in client.requests :
            LET n == result.query.max_results
                param == r.max_results
            IN /\ n \in 1..MaxResultsLimit
               /\ param = Absent => n = 10
               /\ param # Absent =>
                     /\ SpellsNoInteger(param[1]) => n = 10
                     /\ SpellsLargeInteger(param[1]) => n = 10
                     /\ \A k \in 0..99 :
                           /\ SpellsInteger(param[1], k)
                                => n = IF k \in 1..MaxResultsLimit THEN k ELSE 10
                           /\ ( /\ param[1] # <<>>
                                /\ Head(param[1]) = "-"
                                /\ SpellsInteger(Tail(param[1]), k) )
                                => n = 10

\* C13 witness: the string "51" is replaced by 10
C13_Witness ==
    /\ result.op = "lookupServers"
    /\ result.query.max_results = 10
    /\ \E r \in client.requests : r.max_results = Given(<<"5", "1">>)

\* the matches a call that ran alone on one store would return
AloneMatches(st, query) == Pipeline(st, query).matches

\* C14: a call one of whose store queries raised (the exact query, the
\* wildcard query or an enrichment query) is over at once, rejected, with
\* no response and a 500 reply; a call that returned a fresh response had no
\* failing query, made all five enrichment queries for each match it
\* collected, and returns all the matches of the store it read; a 200 or a
\* 404 is never the reply to a call with a failing query.
C14_StoreFailureAborts ==
    \A c \in Calls :
        LET call == calls[c]
        IN /\ call.raised
                => /\ call.pc = "done"
                   /\ call.outcome = "error"
                   /\ call.response = NoResponse
                   /\ call.reply.status = 500
           /\ (call.pc = "done" /\ call.outcome = "ok" /\ call.cached # "live")
                => /\ ~call.raised
                   /\ call.queries = SummaryQueries * Len(call.matches)
                   /\ Len(call.reads) <= 2
                   /\ (\A i \in 1..Len(call.reads) : call.reads[i] = call.reads[1])
                        => call.response.matches
                             = AloneMatches(call.reads[1], call.query)
           /\ call.reply.status \in {200, 404} => ~call.raised

\* C14 witness: an enrichment query raised after the first match of the
\* call was built, and the reply is a 500
C14_Witness ==
    \E c \in Calls :
        /\ calls[c].raised
        /\ calls[c].queries > SummaryQueries
        /\ calls[c].reply.status = 500
        /\ result.fault = "enrich"
        /\ cache # EmptyMap

\* the calls that ran the pipeline to its end and wrote the cache
Writers == {c \in Calls : /\ calls[c].pc = "done"
                          /\ calls[c].outcome = "ok"
                          /\ calls[c].cached # "live"}

\* the stores a call read are all the same store
ReadOneStore(call) == \A i \in 1..Len(call.reads) : call.reads[i] = call.reads[1]

\* C15: two calls of one key that both missed both ran the pipeline and
\* both return cache_hit = false; the cache then holds, under that key, the
\* response and completion time of the one that completed last, and its
\* keys are the keys written; if both calls read the same store they return
\* the same matches.
C15_ConcurrentMisses ==
    /\ DOMAIN cache = {calls[c].key : c \in Writers}
    /\ \A c1, c2 \in Writers :
          (c1 # c2 /\ calls[c1].key = calls[c2].key)
             => /\ ~calls[c1].response.match_metadata.cache_hit
                /\ ~calls[c2].response.match_metadata.cache_hit
                /\ calls[c1].reads # <<>> /\ calls[c2].reads # <<>>
                /\ (\A c \in Writers :
                       calls[c].key = calls[c1].key
                          => calls[c].finished <= calls[c1].finished)
                     => cache[calls[c1].key].data = calls[c1].response
                /\ ( /\ ReadOneStore(calls[c1])
                     /\ ReadOneStore(calls[c2])
                     /\ calls[c1].reads[1] = calls[c2].reads[1] )
                     => calls[c1].response.matches = calls[c2].response.matches

\* C15 witness: two calls of one key both missed and both wrote; they read
\* the same store, and the entry is that of the later one, which differs
\* from the response of the earlier one
C15_Witness ==
    \E c1, c2 \in Writers :
        /\ calls[c1].key = calls[c2].key
        /\ calls[c1].finished < calls[c2].finished
        /\ calls[c1].response # calls[c2].response
        /\ calls[c1].response.matches # <<>>
        /\ calls[c1].reads = calls[c2].reads
        /\ cache[calls[c1].key].data = calls[c2].response

\* the cache entry of the key is the same before and after the step
EntryUntouched(k) ==
    /\ k \in DOMAIN cache <=> k \in DOMAIN cache'
    /\ k \in DOMAIN cache => cache'[k] = cache[k]

\* what a call that read the stores of the given call would collect if it
\* ran with no other call in flight
CollectedAlone(call) ==
    LET exact == findExactDomainMatches(call.reads[1], call.query)
        wildcard == IF Len(call.reads) = 2
                    THEN findWildcardMatches(call.reads[2], call.query, Len(exact))
                    ELSE <<>>
    IN exact \o wildcard

\* C16: a step of a call changes no cache entry but the one of the call's
\* own key, whatever other calls are in flight; and a call that completes
\* with a fresh response returns the matches it would return running alone
\* on the stores it read, a call served from the cache the matches stored
\* under its own key.
C16_KeysIndependent ==
    [][\A c \in Calls :
          calls'[c] # calls[c]
            => /\ \A k \in DOMAIN cache \cup DOMAIN cache' :
                     k # calls'[c].key => EntryUntouched(k)
               /\ (calls'[c].pc = "done" /\ calls'[c].outcome = "ok")
                     => IF calls'[c].cached = "live"
                        THEN /\ EntryUntouched(calls'[c].key)
                             /\ calls'[c].response.matches
                                  = cache[calls'[c].key].data.matches
                        ELSE /\ calls'[c].matches = CollectedAlone(calls'[c])
                             /\ calls'[c].response.matches
                                  = SubSeq(CollectedAlone(calls'[c]), 1,
                                           Min(calls'[c].query.max_results,
                                               Len(CollectedAlone(calls'[c]))))
                             /\ ReadOneStore(calls'[c])
                                  => RunOf(calls'[c])
                                       = Pipeline(calls'[c].reads[1], calls'[c].query)]_vars

\* C16 witness: two calls of different keys were in flight together, both
\* returned matches, and the cache holds the entry of each
C16_Witness ==
    \E c1, c2 \in Writers :
        /\ calls[c1].key # calls[c2].key
        /\ calls[c2].began < calls[c1].finished
        /\ calls[c1].began < calls[c2].finished
        /\ calls[c1].response.matches # <<>>
        /\ calls[c2].response.matches # <<>>
        /\ cache[calls[c1].key].data = calls[c1].response
        /\ cache[calls[c2].key].data = calls[c2].response

\* C17: clearCache leaves the cache empty and the sweep timer active; every
\* lookup made while the cache is still as clearCache left it, whatever its
\* query, finds no entry, returns cache_hit = false and, unless a store
\* query raises, runs the pipeline and writes the entry again.
C17_ClearCacheEmpties ==
    [][ /\ clearCache => (cache' = EmptyMap /\ sweepTimer' = "active")
        /\ \A q \in client.queries, e \in Elapsed :
              (result.op = "clearCache" /\ Lookup(q, e))
                 => /\ cache = EmptyMap
                    /\ result'.cached = "absent"
                    /\ ~result'.response.match_metadata.cache_hit
                    /\ result'.outcome = "ok"
                         => /\ result'.run = Pipeline(store, q)
                            /\ DOMAIN cache' = {getCacheKey(q)} ]_vars

\* C17 witness: clearCache has dropped an entry that a lookup would have
\* served, and the sweep can still run
C17_Witness ==
    /\ result.op = "clearCache"
    /\ result.cached = "live"
    /\ cache = EmptyMap
    /\ sweepTimer = "active"

\* C18: a sweep keeps exactly the entries whose age is at most the TTL, with
\* their data and timestamp; so every entry a lookup would serve is still
\* there after the sweep.
C18_SweepExact ==
    [][clearExpiredCache
         => /\ DOMAIN cache'
                 = {k \in DOMAIN cache : now - cache[k].timestamp <= CACHE_TTL_MS}
            /\ \A k \in DOMAIN cache' : cache'[k] = cache[k]
            /\ \A k \in DOMAIN cache :
                  now - cache[k].timestamp < CACHE_TTL_MS
                     => k \in DOMAIN cache' /\ cache'[k] = cache[k]]_vars

\* C18 witness: a sweep removed an entry and kept another one, whose age
\* is the TTL
C18_Witness ==
    /\ result.op = "clearExpiredCache"
    /\ \E k \in DOMAIN cache : now - cache[k].timestamp = CACHE_TTL_MS
    /\ \E k \in DOMAIN written : k \notin DOMAIN cache

\* the pattern with its k-th "*" replaced by the k-th of the labels
RECURSIVE Substitute(_, _)
Substitute(pattern, labels) ==
    IF pattern = <<>> THEN <<>>
    ELSE IF Head(pattern) = "*"
         THEN Head(labels) \o Substitute(Tail(pattern), Tail(labels))
         ELSE <<Head(pattern)>> \o Substitute(Tail(pattern), labels)

\* the part of the pattern after its last "*" (all of it when it has none)
LiteralSuffix(pattern) ==
    LET stars == {i \in 1..Len(pattern) : pattern[i] = "*"}
        last == CHOOSE i \in stars : \A j \in stars : j <= i
    IN IF stars = {} THEN pattern ELSE SubSeq(pattern, last + 1, Len(pattern))

EndsWith(str, suffix) ==
    /\ Len(str) >= Len(suffix)
    /\ SubSeq(str, Len(str) - Len(suffix) + 1, Len(str)) = suffix

\* the wildcard pattern of the store of a matcher run
GlobPattern == store.domain_mappings[2].domain_pattern

\* C19: for a pattern of labels, dots and "*": a domain obtained by putting
\* a non-empty label in the place of each "*" matches; a domain that ends
\* with ".S" matches "*.S" whatever stands in front, several labels
\* included; a domain that does not end with the literal text after the last
\* "*" does not match (the bare S and S followed by more labels, for "*.S");
\* and a pattern without "*" matches the equal domain only.
C19_WildcardFullMatch ==
    result.op = "matchesWildcard" =>
        LET domain == result.query.domain
            pattern == GlobPattern
            matched == result.outcome = "match"
            S == SubSeq(pattern, 3, Len(pattern))
        IN /\ (\E labels \in [1..MaxLabels -> GlobLabels] :
                   domain = Substitute(pattern, labels)) => matched
           /\ ( /\ Len(pattern) >= 3
                /\ pattern[1] = "*" /\ pattern[2] = "."
                /\ \A i \in 1..Len(S) : S[i] # "*" )
                => (matched <=> EndsWith(domain, <<".">> \o S))
           /\ ~EndsWith(domain, LiteralSuffix(pattern)) => ~matched
           /\ (\A i \in 1..Len(pattern) : pattern[i] # "*")
                => (matched <=> domain = pattern)

\* C19 witness: a domain with two labels in front of S matches "*.S"
C19_Witness ==
    /\ result.op = "matchesWildcard"
    /\ result.outcome = "match"
    /\ GlobPattern = <<"*", ".", "a">>
    /\ result.query.domain = <<"a", ".", "b", ".", "a">>

\* the parts of a dotted string
PartCount(str) == 1 + Cardinality({i \in 1..Len(str) : str[i] = "."})

\* the parts of a pattern that are a "*" and nothing else
StarParts(pattern) ==
    Cardinality({i \in 1..Len(pattern) :
                    /\ pattern[i] = "*"
                    /\ i = 1 \/ pattern[i - 1] = "."
                    /\ i = Len(pattern) \/ pattern[i + 1] = "."})

\* c is the integer nearest to 70 + 20 * specific / total, the upper one of
\* two that are equally near
IsRounded(c, specific, total) ==
    /\ 2 * total * c - (140 * total + 40 * specific) > 0 - total
    /\ 2 * total * c - (140 * total + 40 * specific) <= total

IsReordering(a, b) ==
    /\ Len(a) = Len(b)
    /\ \A x \in Range(a) \cup Range(b) :
          Cardinality({i \in 1..Len(a) : a[i] = x})
            = Cardinality({i \in 1..Len(b) : b[i] = x})

\* two queries that differ at most in the order of trust_levels and of
\* deployment_types
SameUpToOrder(q1, q2) ==
    /\ q1.domain = q2.domain
    /\ IsReordering(q1.trust_levels, q2.trust_levels)
    /\ IsReordering(q1.deployment_types, q2.deployment_types)
    /\ q1.max_results = q2.max_results
    /\ q1.include_categories = q2.include_categories

\* C21: two queries that differ only in the order of trust_levels or of
\* deployment_types have the same cache key; a lookup of one of them, made
\* less than the TTL after a lookup of the other wrote its entry and with no
\* clearCache in between, is a cache hit served from that entry, with the
\* matches of the first response.
C21_OrderInsensitiveKey ==
    [][\A q \in client.queries :
          /\ \A p \in client.queries :
                SameUpToOrder(p, q) => getCacheKey(p) = getCacheKey(q)
          /\ \A k \in DOMAIN written :
                ( /\ Lookup(q, 0)
                  /\ SameUpToOrder(written[k].query, q)
                  /\ now - written[k].at < CACHE_TTL_MS )
                => /\ getCacheKey(q) = k
                   /\ result'.outcome = "ok"
                   /\ result'.response.match_metadata.cache_hit = TRUE
                   /\ result'.run = NoRun
                   /\ result'.response.matches = written[k].response.matches
                   /\ cache' = cache]_vars

\* C21 witness: a hit with matches served to a query from the entry that a
\* query with both lists in another order wrote
C21_Witness ==
    /\ Returned
    /\ CacheHit
    /\ Matches # <<>>
    /\ result.key \in DOMAIN written
    /\ written[result.key].query.trust_levels # result.query.trust_levels
    /\ written[result.key].query.deployment_types # result.query.deployment_types
    /\ SameUpToOrder(written[result.key].query, result.query)

\* the exact stage has built the match of the server s1
Built == result.op = "findExactDomainMatches" /\ Len(Matches) = 1

\* the number of rows of a table that belong to s1
CountOf(table) ==
    Cardinality({i \in 1..Len(table) : table[i].server_id = "s1"})

\* C22: with n prerequisite rows of the server, installation_complexity is
\* simple for n <= 1, moderate for n = 2 or 3 and complex for n > 3;
\* estimated_setup_minutes is 5 for n = 0 and min(5 * n, 30) otherwise, a
\* multiple of 5 in 5..30 that is not below the estimate for any table with
\* fewer rows; requires_restart is true exactly when a row of the server has
\* type runtime.
C22_PrerequisitesSummary ==
    Built =>
        LET table == store.installation_prerequisites
            n == CountOf(table)
            m == Matches[1]
        IN /\ m.installation_complexity
                 = IF n <= 1 THEN "simple" ELSE IF n <= 3 THEN "moderate" ELSE "complex"
           /\ n = 0 => m.estimated_setup_minutes = 5
           /\ n > 0 => /\ m.estimated_setup_minutes <= 5 * n
                        /\ m.estimated_setup_minutes <= 30
                        /\ m.estimated_setup_minutes \in {5 * n, 30}
           /\ m.estimated_setup_minutes \in {5 * k : k \in 1..6}
           /\ \A k \in 0..Len(table) :
                 getPrerequisitesSummary([store EXCEPT
                         !.installation_prerequisites = SubSeq(table, 1, k)],
                     "s1").estimatedMinutes <= m.estimated_setup_minutes
           /\ m.requires_restart
                 <=> \E i \in 1..Len(table) :
                        /\ table[i].server_id = "s1"
                        /\ table[i].prerequisite_type = "runtime"

\* C22 witness: a server with seven prerequisites, none of type runtime,
\* next to a runtime prerequisite of another server: complex, 30 minutes,
\* no restart
C22_Witness ==
    /\ Built
    /\ CountOf(store.installation_prerequisites) = 7
    /\ Len(store.installation_prerequisites) = 8
    /\ Matches[1].installation_complexity = "complex"
    /\ Matches[1].estimated_setup_minutes = 30
    /\ ~Matches[1].requires_restart

\* the orders in which the rows of s1 can be listed by ascending priority:
\* the one-to-one maps from positions to rows of s1 along which the
\* priority never decreases
PriorityOrders(table) ==
    LET own == {i \in 1..Len(table) : table[i].server_id = "s1"}
    IN {f \in [1..Cardinality(own) -> own] :
          /\ \A i, j \in DOMAIN f : i # j => f[i] # f[j]
          /\ \A i, j \in DOMAIN f : i < j => table[f[i]].priority <= table[f[j]].priority}

\* C23: with no auth rows of the server the match has auth_required =
\* false, oauth_ready = false, auth_methods = [] and no auth_type; otherwise
\* auth_methods lists the type of every row of the server by ascending
\* priority, repeated types kept, auth_required and auth_type are those of
\* the first row of that list (a row of the lowest priority number), and
\* oauth_ready is true exactly when some row of the server has type oauth2.
C23_AuthenticationSummary ==
    Built =>
        LET table == store.authentication_configs
            n == CountOf(table)
            m == Matches[1]
        IN /\ n = 0 => /\ m.auth_required = FALSE
                        /\ m.oauth_ready = FALSE
                        /\ m.auth_methods = <<>>
                        /\ m.auth_type = <<>>
           /\ n > 0 =>
                 /\ Len(m.auth_methods) = n
                 /\ \E f \in PriorityOrders(table) :
                       /\ m.auth_methods = [i \in 1..n |-> table[f[i]].auth_type]
                       /\ m.auth_type = <<table[f[1]].auth_type>>
                       /\ m.auth_required <=> table[f[1]].required = 1
                 /\ m.oauth_ready
                       <=> \E i \in 1..Len(table) :
                              /\ table[i].server_id = "s1"
                              /\ table[i].auth_type = "oauth2"

\* C23 witness: the primary row is an api_key row that is not required and
\* is not the first row of the table; a later oauth2 row makes the server
\* oauth_ready, and api_key is listed twice
C23_Witness ==
    /\ Built
    /\ Matches[1].auth_type = <<"api_key">>
    /\ ~Matches[1].auth_required
    /\ Matches[1].oauth_ready
    /\ Matches[1].auth_methods = <<"api_key", "api_key", "oauth2">>
    /\ store.authentication_configs[1].auth_type = "oauth2"
    /\ store.authentication_configs[1].server_id = "s1"

\* C24: a hit leaves the cache as it was: the timestamp of every entry is
\* the time it was written and its data the response of the miss that wrote
\* it, with cache_hit = false; so whatever hits an entry written at T has
\* served, a lookup of its key is a hit when it starts before T + TTL, and
\* a lookup that starts at or after T + TTL is not served from it and, when
\* no store query raises, runs the pipeline and writes a new entry.
C24_HitsDoNotExtend ==
    [][\A q \in client.queries, e \in Elapsed :
          LET k == getCacheKey(q)
          IN Lookup(q, e)
             => /\ \A j \in DOMAIN cache :
                      /\ cache[j].timestamp = written[j].at
                      /\ cache[j].data = written[j].response
                      /\ cache[j].data.match_metadata.cache_hit = FALSE
                /\ result'.response.match_metadata.cache_hit
                      => cache' = cache /\ written' = written
                /\ k \in DOMAIN written
                      => IF now - written[k].at < CACHE_TTL_MS
                         THEN result'.response.match_metadata.cache_hit
                         ELSE /\ ~result'.response.match_metadata.cache_hit
                              /\ result'.outcome = "ok"
                                   => /\ result'.run = Pipeline(store, q)
                                      /\ cache'[k].timestamp = now'
                                      /\ written'[k].at = now']_vars

\* C24 witness: a hit served in the last millisecond of the life of an
\* entry, which still has the timestamp and the data of its write
C24_Witness ==
    /\ Returned
    /\ CacheHit
    /\ Matches # <<>>
    /\ result.key \in DOMAIN cache
    /\ result.at - written[result.key].at = CACHE_TTL_MS - 1
    /\ cache[result.key].timestamp = written[result.key].at
    /\ cache[result.key].data.match_metadata.cache_hit = FALSE

\* C25: a lookup of a key that starts less than the TTL after the write of
\* the entry of that key, with no clearCache in between, returns the matches
\* of that write with cache_hit = true and without reading the store,
\* whatever rows were inserted into or deleted from the store since; an
\* entry with no matches is served like any other.
C25_NoInvalidationByStore ==
    [][\A q \in client.queries :
          LET k == getCacheKey(q)
          IN ( /\ Lookup(q, 0)
               /\ k \in DOMAIN written
               /\ now - written[k].at < CACHE_TTL_MS )
             => /\ result'.outcome = "ok"
                /\ result'.response.match_metadata.cache_hit = TRUE
                /\ result'.run = NoRun
                /\ result'.response.matches = written[k].response.matches
                /\ result'.response.match_metadata.match_count
                     = Len(written[k].response.matches)
                /\ cache' = cache]_vars

\* C25 witness: a mapping of the domain was inserted after a lookup that
\* found nothing; a later lookup within the TTL still returns no matches
C25_Witness ==
    /\ Returned
    /\ CacheHit
    /\ Matches = <<>>
    /\ result.at > written[result.key].at
    /\ Pipeline(store, result.query).matches # <<>>

\* C26: a lookup that is rejected because a store query raised found no
\* live entry and leaves the cache as it was: no entry is added, an expired
\* entry of its key keeps its data and timestamp, the entries of the other
\* keys are untouched; and a lookup of the same key that follows it is not
\* a hit and, when no store query raises, runs the pipeline and writes the
\* entry.
C26_FailureLeavesCache ==
    [][\A q \in client.queries, e \in Elapsed :
          Lookup(q, e)
             => /\ result'.outcome = "error"
                     => /\ result'.cached # "live"
                        /\ result'.response = NoResponse
                        /\ DOMAIN cache' = DOMAIN cache
                        /\ \A k \in DOMAIN cache : cache'[k] = cache[k]
                /\ ( /\ result.op = "lookupServers"
                      /\ result.outcome = "error"
                      /\ result.key = getCacheKey(q) )
                     => /\ ~result'.response.match_metadata.cache_hit
                        /\ result'.outcome = "ok"
                             => /\ result'.run = Pipeline(store, q)
                                /\ getCacheKey(q) \in DOMAIN cache'
                                /\ cache'[getCacheKey(q)].data = result'.response]_vars

\* C26 witness: a rejected lookup whose key has an expired entry, still in
\* the cache, next to the live entry of another key
C26_Witness ==
    /\ result.op = "lookupServers"
    /\ result.outcome = "error"
    /\ result.cached = "expired"
    /\ result.key \in DOMAIN cache
    /\ Cached(result.key) = "expired"
    /\ \E k \in DOMAIN cache : k # result.key /\ Cached(k) = "live"

\* the domain_mappings rows of the server that qualify for the query: the
\* server passes the filters, and the row is an exact row of the domain or a
\* wildcard row whose pattern matches the domain
QualifyingRows(st, query, serverId, matchType) ==
    {i \in 1..Len(st.domain_mappings) :
        LET dm == st.domain_mappings[i]
        IN /\ dm.server_id = serverId
           /\ dm.match_type = matchType
           /\ st.servers[serverId].trust_level \in Range(query.trust_levels)
           /\ st.servers[serverId].deployment_type \in Range(query.deployment_types)
           /\ IF matchType = "exact" THEN dm.domain_pattern = query.domain
              ELSE matchesWildcard(query.domain, dm.domain_pattern)}

\* the matches of the server of the given type
MatchesOf(ms, serverId, matchType) ==
    {i \in 1..Len(ms) : ms[i].server_id = serverId /\ ms[i].match_type = matchType}

\* C27: a fresh response has, for each server and each stage, at most as
\* many matches as the server has qualifying domain_mappings rows of that
\* stage, and exactly as many when max_results is not below the number of
\* rows of the table; so a server with several qualifying rows is listed
\* once for each of them.
C27_OneMatchPerRow ==
    (Returned /\ result.cached # "live") =>
        \A s \in DOMAIN store.servers, t \in {"exact", "wildcard"} :
            LET rows == Cardinality(QualifyingRows(store, result.query, s, t))
                listed == Cardinality(MatchesOf(Matches, s, t))
            IN /\ listed <= rows
               /\ Len(store.domain_mappings) <= result.query.max_results
                    => listed = rows

\* C27 witness: one server listed twice, for its exact row and for its
\* wildcard row
C27_Witness ==
    /\ Returned
    /\ result.cached # "live"
    /\ Len(Matches) = 2
    /\ Matches[1].server_id = Matches[2].server_id
    /\ Matches[1].match_type = "exact"
    /\ Matches[2].match_type = "wildcard"

\* the dot-separated parts of a pattern that are not a "*" and nothing else
SpecificParts(pattern) == PartCount(pattern) - StarParts(pattern)

\* strings of "a" and ".", those with empty parts included
DottedStrings == SeqsUpTo({"a", "."}, MaxLabels)

\* C28: a domain that matches a pattern of labels, dots and "*" has at
\* least as many dot-separated parts as the pattern, so the parts of the
\* pattern other than "*" are at most the parts of the domain and the
\* confidence computed for the pair is at most 90; every wildcard match of
\* a response has a confidence of at most 90; the same holds of the strings
\* with empty parts, which the route does not let through.
C28_WildcardConfidenceBound ==
    /\ (result.op = "matchesWildcard" /\ result.outcome = "match")
          => /\ PartCount(result.query.domain) >= PartCount(GlobPattern)
             /\ SpecificParts(GlobPattern) <= PartCount(result.query.domain)
             /\ calculateWildcardConfidence(result.query.domain, GlobPattern) <= 90
    /\ Returned
          => \A i \in 1..Len(Matches) :
                Matches[i].match_type = "wildcard"
                   => /\ Matches[i].match_confidence <= 90
                      /\ PartCount(result.query.domain) >= PartCount(GlobPattern)
    /\ result.op = "matchesWildcard"
          => \A d \in DottedStrings :
                matchesWildcard(d, GlobPattern)
                   => /\ PartCount(d) >= PartCount(GlobPattern)
                      /\ calculateWildcardConfidence(d, GlobPattern) <= 90

\* C28 witness: a wildcard match of confidence 90: the pattern has as many
\* parts as the domain and none of them is a "*"
C28_Witness ==
    /\ Returned
    /\ PartCount(result.query.domain) = PartCount(GlobPattern)
    /\ StarParts(GlobPattern) = 0
    /\ PartCount(GlobPattern) >= 2
    /\ \E i \in 1..Len(Matches) :
          /\ Matches[i].match_type = "wildcard"
          /\ Matches[i].match_confidence = 90

\* C29: with the sweep timer firing every interval, a firing removes
\* exactly the entries whose age exceeds the TTL, so an entry that is not
\* overwritten is removed by the first firing after its age exceeds the TTL;
\* at every moment every entry of the map has an age of at most the TTL plus
\* one interval (reached at the instant of the firing that removes it), the
\* timer stays active and is never overdue.
C29_SweepBoundsAge ==
    [][ /\ \A k \in DOMAIN cache :
              now - cache[k].timestamp <= CACHE_TTL_MS + SWEEP_INTERVAL_MS
        /\ sweepTimer = "active"
        /\ now <= sweepDue
        /\ sweepTimerFires
              => /\ DOMAIN cache'
                      = {k \in DOMAIN cache : now - cache[k].timestamp <= CACHE_TTL_MS}
                 /\ \A k \in DOMAIN cache' : cache'[k] = cache[k]
                 /\ sweepDue' = now + SWEEP_INTERVAL_MS
        /\ \A k \in DOMAIN cache' :
              now' - cache'[k].timestamp <= CACHE_TTL_MS + SWEEP_INTERVAL_MS ]_vars

\* C29 witness: a firing has just removed an entry that had reached the
\* age of TTL plus one interval, and has kept an entry that a lookup wrote
\* between two firings
C29_Witness ==
    /\ result.op = "clearExpiredCache"
    /\ now + SWEEP_INTERVAL_MS = sweepDue
    /\ \E k \in DOMAIN written :
          /\ k \notin DOMAIN cache
          /\ now - written[k].at = CACHE_TTL_MS + SWEEP_INTERVAL_MS
    /\ \E k \in DOMAIN cache :
          /\ written[k].at % SWEEP_INTERVAL_MS # 0
          /\ cache[k].timestamp = written[k].at

\* the .sql files of the directory in ascending order of their names
SortedSqlFiles ==
    LET names == {f.name : f \in {g \in client.directory.entries : g.ext = "sql"}}
    IN CHOOSE arr \in [1..Cardinality(names) -> names] :
          /\ Range(arr) = names
          /\ \A i \in 1..(Len(arr) - 1) : StrLess(arr[i], arr[i + 1])

\* a sequence without repeated elements
NoRepeats(arr) == \A i, j \in 1..Len(arr) : i # j => arr[i] # arr[j]

====
